---- MODULE Spec2Model ----
(***************************************************************************)
(* State-machine model of anime-scraper: the grouping pipeline            *)
(* (anime_scraper/grouper.py, metadata.py, cache.py, models.py, utils.py), *)
(* the search loop (scraper.py) and the downloads (downloader.py).         *)
(*                                                                         *)
(* Python str values are TLA+ strings; the operators Len, SubSeq and \o    *)
(* act on them character by character, as Python's len, slicing and +.     *)
(***************************************************************************)
EXTENDS Integers, Sequences, FiniteSets, TLC

VARIABLES
    torrents,     \* the caller's list of Torrent objects (mutated in place)
    input,        \* the list as it was handed over, before any call
    anime_name,   \* the anime_name argument (the fallback name)
    results,      \* the lists returned by the successive calls
    calls,        \* the names of the functions called, in order
    returned,     \* the list fetch_metadata_for_torrents returned, if called
    writes,       \* assignments to each torrent.metadata, by pipeline step
    metadata_file,  \* the cache metadata file on disk
    html_cache,   \* the cached pages on disk
    now,          \* the clock, in hours
    client,       \* the CachedHTTPClient the caller holds, if any
    log,          \* the clients created and the client.get calls, in order
    detail_arg,   \* the detail dict handed to the extractors
    extracted,    \* what the extractors returned for detail_arg
    stamps,       \* the hour of each entry of log
    roman_call,   \* the argument and the result of _parse_roman_numeral
    search_call,  \* the arguments and the result of search_nyaa
    download_call,  \* the arguments, requests, files and result of
                    \* download_group_torrents
    cache_dir,    \* the files of one URL in the cache directory
    writers,      \* the calls of _write_to_cache under way
    seen          \* what the calls of _read_from_cache have returned

vars == <<torrents, input, anime_name, results, calls, returned, writes,
          metadata_file, html_cache, now, client, log, detail_arg, extracted,
          stamps, roman_call, search_call, download_call, cache_dir,
          writers, seen>>

(***************************************************************************)
(* Bounds of the model.                                                    *)
(***************************************************************************)
MaxTorrents == 3      \* longest input list
MaxSeeders == 1       \* largest seeder count of one torrent
MaxCalls == 2         \* calls of group_torrents_deterministic on one list
MaxFetched == 2       \* longest list handed to the pipeline

(***************************************************************************)
(* Python built-ins, computed on characters.                               *)
(***************************************************************************)
UpperLetters == "ABCDEFGHIJKLMNOPQRSTUVWXYZ"
LowerLetters == "abcdefghijklmnopqrstuvwxyz"
Digits == "0123456789"

CharAt(s, i) == SubSeq(s, i, i)

\* position of the one-character string c in s, 0 when absent
IndexOf(c, s) ==
    IF \E i \in 1..Len(s) : CharAt(s, i) = c
    THEN CHOOSE i \in 1..Len(s) : CharAt(s, i) = c
    ELSE 0

\* the lower-case letter of each upper-case letter
ToLower ==
    [c \in {CharAt(UpperLetters, i) : i \in 1..Len(UpperLetters)} |->
        CharAt(LowerLetters, IndexOf(c, UpperLetters))]

LowerChar(c) == IF c \in DOMAIN ToLower THEN ToLower[c] ELSE c

\* str.lower()
RECURSIVE Lower(_)
Lower(s) ==
    IF s = "" THEN ""
    ELSE LowerChar(CharAt(s, 1)) \o Lower(SubSeq(s, 2, Len(s)))

\* kw in s
Contains(s, kw) ==
    \E i \in 1..(Len(s) - Len(kw) + 1) : SubSeq(s, i, i + Len(kw) - 1) = kw

\* s.replace(old, new), for a non-empty old: left to right, non-overlapping
RECURSIVE Replace(_, _, _)
Replace(s, old, new) ==
    IF Len(s) < Len(old) THEN s
    ELSE IF SubSeq(s, 1, Len(old)) = old
         THEN new \o Replace(SubSeq(s, Len(old) + 1, Len(s)), old, new)
         ELSE CharAt(s, 1) \o Replace(SubSeq(s, 2, Len(s)), old, new)

\* str.strip() of blanks
RECURSIVE Strip(_)
Strip(s) ==
    IF s = "" THEN ""
    ELSE IF CharAt(s, 1) = " " THEN Strip(SubSeq(s, 2, Len(s)))
    ELSE IF CharAt(s, Len(s)) = " " THEN Strip(SubSeq(s, 1, Len(s) - 1))
    ELSE s

\* the digits of an int literal: digits, single underscores between digits
IsDigitBody(s) ==
    /\ s # ""
    /\ \A i \in 1..Len(s) :
          \/ IndexOf(CharAt(s, i), Digits) > 0
          \/ /\ CharAt(s, i) = "_"
             /\ 1 < i /\ i < Len(s)
             /\ IndexOf(CharAt(s, i - 1), Digits) > 0
             /\ IndexOf(CharAt(s, i + 1), Digits) > 0

RECURSIVE DigitsValue(_, _)
DigitsValue(s, acc) ==
    IF s = "" THEN acc
    ELSE IF CharAt(s, 1) = "_" THEN DigitsValue(SubSeq(s, 2, Len(s)), acc)
    ELSE DigitsValue(SubSeq(s, 2, Len(s)),
                     10 * acc + (IndexOf(CharAt(s, 1), Digits) - 1))

\* int(s): [ok |-> FALSE] stands for ValueError
ParseInt(s) ==
    LET t == Strip(s)
        signed == t # "" /\ CharAt(t, 1) \in {"+", "-"}
        body == IF signed THEN SubSeq(t, 2, Len(t)) ELSE t
    IN  IF IsDigitBody(body)
        THEN [ok |-> TRUE,
              value |-> IF signed /\ CharAt(t, 1) = "-"
                        THEN 0 - DigitsValue(body, 0)
                        ELSE DigitsValue(body, 0)]
        ELSE [ok |-> FALSE, value |-> 0]

\* str(n), the f-string formatting of an int
RECURSIVE IntToStr(_)
IntToStr(n) ==
    IF n < 0 THEN "-" \o IntToStr(0 - n)
    ELSE IF n < 10 THEN CharAt(Digits, n + 1)
    ELSE IntToStr(n \div 10) \o CharAt(Digits, (n % 10) + 1)

\* min(xs), max(xs) of a list of ints
MinSeq(xs) == CHOOSE x \in {xs[i] : i \in 1..Len(xs)} :
                  \A j \in 1..Len(xs) : x <= xs[j]
MaxSeq(xs) == CHOOSE x \in {xs[i] : i \in 1..Len(xs)} :
                  \A j \in 1..Len(xs) : x >= xs[j]

(***************************************************************************)
(* models.py                                                               *)
(***************************************************************************)
\* Torrent.metadata = None
None == [is_none |-> TRUE]

\* TorrentMetadata(anime_name=name): every other field at its default
TorrentMetadata(name) ==
    [anime_name |-> name, season |-> "Season 1", episode |-> "",
     quality |-> "Unknown", audio_language |-> "Unknown",
     subtitle_language |-> "Unknown", release_group |-> "Unknown",
     description |-> ""]

\* mutant: the quality left out of the key
group_key_without_quality(m) ==
    m.release_group \o "|" \o m.anime_name \o "|" \o m.season \o "|"
      \o m.audio_language \o "|" \o m.subtitle_language

\* TorrentMetadata.group_key
group_key(m) ==
    m.release_group \o "|" \o m.anime_name \o "|" \o m.season \o "|"
      \o m.audio_language \o "|" \o m.subtitle_language \o "|" \o m.quality

\* " - ".join(parts)
RECURSIVE Join(_, _)
Join(sep, parts) ==
    IF parts = <<>> THEN ""
    ELSE IF Len(parts) = 1 THEN parts[1]
    ELSE parts[1] \o sep \o Join(sep, Tail(parts))

\* TorrentMetadata.group_name
group_name(m) ==
    LET p0 == <<m.release_group, m.anime_name, m.season>>
        p1 == IF m.audio_language # "" /\ m.audio_language # "Unknown"
              THEN Append(p0, "DUB " \o m.audio_language) ELSE p0
        p2 == IF m.subtitle_language # "" /\ m.subtitle_language # "Unknown"
              THEN Append(p1, "SUB " \o m.subtitle_language) ELSE p1
        p3 == IF m.quality # "" /\ m.quality # "Unknown"
              THEN Append(p2, "QUALITY " \o m.quality) ELSE p2
    IN  Join(" - ", p3)

(***************************************************************************)
(* utils.py                                                                *)
(***************************************************************************)
DUB_KEYWORDS == <<"dub", "dubbed", "dual audio", "dual", "english dub">>

\* mutant: the name is not lower-cased before the search
contains_dub_keywords_case_sensitive(name) ==
    \E k \in 1..Len(DUB_KEYWORDS) : Contains(name, DUB_KEYWORDS[k])

contains_dub_keywords(name) ==
    LET name_lower == Lower(name)
    IN  \E k \in 1..Len(DUB_KEYWORDS) : Contains(name_lower, DUB_KEYWORDS[k])

(***************************************************************************)
(* Python's re module: a backtracking matcher over pattern trees.          *)
(* Match gives the outcomes of matching a node at position i in the order  *)
(* in which backtracking tries them; an outcome is the position behind the *)
(* match and the groups captured so far.                                   *)
(***************************************************************************)
Whitespace == {" ", "\t", "\n", "\r"}
CharSet(s) == {CharAt(s, i) : i \in 1..Len(s)}
DigitChars == CharSet(Digits)
WordChars == CharSet(UpperLetters) \cup CharSet(LowerLetters)
                \cup DigitChars \cup {"_"}

\* pattern nodes
Ch(cs) == [t |-> "set", cs |-> cs, neg |-> FALSE]        \* [...]
NotCh(cs) == [t |-> "set", cs |-> cs, neg |-> TRUE]      \* [^...]
Lit(str) == [t |-> "lit", s |-> str]                     \* literal text
Cat(rs) == [t |-> "cat", rs |-> rs]                      \* r1 r2 ...
Alt(rs) == [t |-> "alt", rs |-> rs]                      \* r1|r2|...
Star(r) == [t |-> "star", r |-> r]                       \* r* (greedy)
Opt(r) == [t |-> "opt", r |-> r]                         \* r? (greedy)
Grp(n, r) == [t |-> "grp", n |-> n, r |-> r]             \* n-th (...)
Bol == [t |-> "bol"]                                     \* ^
Eol == [t |-> "eol"]                                     \* $
Wb == [t |-> "wb"]                                       \* \b
Plus(r) == Cat(<<r, Star(r)>>)                           \* r+
\* r{min,max}: min times r, then up to max - min further times
RECURSIVE Rep(_, _, _)
Rep(r, min, max) ==
    IF min > 0 THEN Cat(<<r, Rep(r, min - 1, max - 1)>>)
    ELSE IF max > 0 THEN Opt(Cat(<<r, Rep(r, 0, max - 1)>>))
    ELSE Cat(<<>>)
Dot == NotCh({"\n"})
Ws == Ch(Whitespace)                                     \* \s
Dg == Ch(DigitChars)                                     \* \d

NoGroup == [ok |-> FALSE, s |-> ""]
NoGroups == <<NoGroup, NoGroup>>

\* the upper-case letter of each lower-case letter
ToUpper ==
    [c \in {CharAt(LowerLetters, i) : i \in 1..Len(LowerLetters)} |->
        CharAt(UpperLetters, IndexOf(c, LowerLetters))]

UpperChar(c) == IF c \in DOMAIN ToUpper THEN ToUpper[c] ELSE c

\* the character c is in the class cs (ic: re.IGNORECASE, under which a
\* letter stands for both of its cases)
InClass(c, cs, ic) ==
    \/ c \in cs
    \/ ic /\ (LowerChar(c) \in cs \/ UpperChar(c) \in cs)

IsWordAt(s, i) == i >= 1 /\ i <= Len(s) /\ CharAt(s, i) \in WordChars

\* the outcomes os of the n-th group entered at i, with the group recorded
RECURSIVE Capture(_, _, _, _)
Capture(os, n, s, i) ==
    IF os = <<>> THEN <<>>
    ELSE <<[pos |-> Head(os).pos,
            caps |-> [Head(os).caps EXCEPT
                        ![n] = [ok |-> TRUE,
                                s |-> SubSeq(s, i, Head(os).pos - 1)]]]>>
         \o Capture(Tail(os), n, s, i)

\* the lists of outcomes j, j+1, ... of oss, one after the other
RECURSIVE Flatten(_, _)
Flatten(oss, j) ==
    IF j > Len(oss) THEN <<>> ELSE oss[j] \o Flatten(oss, j + 1)

\* the first position from i on whose character is outside the class
RunEnd(s, i, cs, neg, ic) ==
    LET stops == {j \in i..Len(s) : InClass(CharAt(s, j), cs, ic) = neg}
    IN  IF stops = {} THEN Len(s) + 1
        ELSE CHOOSE j \in stops : \A k \in stops : j <= k

RECURSIVE Match(_, _, _, _, _)
Match(r, s, i, caps, ic) ==
    LET here == <<[pos |-> i, caps |-> caps]>>
    IN  CASE r.t = "set" ->
               IF i <= Len(s) /\ (InClass(CharAt(s, i), r.cs, ic) # r.neg)
               THEN <<[pos |-> i + 1, caps |-> caps]>> ELSE <<>>
          [] r.t = "lit" ->
               LET j == i + Len(r.s) - 1
               IN  IF j <= Len(s)
                      /\ (IF ic
                          THEN /\ LowerChar(CharAt(s, i))
                                     = LowerChar(CharAt(r.s, 1))
                               /\ Lower(SubSeq(s, i, j)) = Lower(r.s)
                          ELSE SubSeq(s, i, j) = r.s)
                   THEN <<[pos |-> j + 1, caps |-> caps]>> ELSE <<>>
          [] r.t = "cat" ->
               \* the rest of the sequence behind each outcome of its head
               IF r.rs = <<>> THEN here
               ELSE LET os == Match(Head(r.rs), s, i, caps, ic)
                    IN  Flatten([j \in 1..Len(os) |->
                                    Match(Cat(Tail(r.rs)), s, os[j].pos,
                                          os[j].caps, ic)], 1)
          [] r.t = "alt" ->
               Flatten([k \in 1..Len(r.rs) |-> Match(r.rs[k], s, i, caps, ic)],
                       1)
          [] r.t = "star" ->
               \* greedy: one more repetition first (an empty one is not
               \* repeated), stopping here last
               IF r.r.t = "set"
               THEN \* a run of single characters: the longest first
                    LET e == RunEnd(s, i, r.r.cs, r.r.neg, ic)
                    IN  [k \in 1..(e - i + 1) |->
                            [pos |-> e + 1 - k, caps |-> caps]]
               ELSE LET os == Match(r.r, s, i, caps, ic)
                    IN  Flatten([j \in 1..Len(os) |->
                                    IF os[j].pos > i
                                    THEN Match(r, s, os[j].pos, os[j].caps, ic)
                                    ELSE <<>>], 1)
                        \o here
          [] r.t = "opt" -> Match(r.r, s, i, caps, ic) \o here
          [] r.t = "grp" -> Capture(Match(r.r, s, i, caps, ic), r.n, s, i)
          [] r.t = "bol" -> IF i = 1 THEN here ELSE <<>>
          [] r.t = "eol" ->
               IF i = Len(s) + 1 \/ (i = Len(s) /\ CharAt(s, i) = "\n")
               THEN here ELSE <<>>
          [] r.t = "wb" ->
               IF IsWordAt(s, i - 1) # IsWordAt(s, i) THEN here ELSE <<>>

\* the match that starts at i, os being the outcomes there
MatchAt(i, os) ==
    [found |-> TRUE, start |-> i, end |-> Head(os).pos, caps |-> Head(os).caps]

\* the match at the least of the starts, None if there is none
Leftmost(r, s, ic, starts) ==
    IF starts = {} THEN [found |-> FALSE]
    ELSE LET i == CHOOSE i \in starts : \A j \in starts : i <= j
         IN  MatchAt(i, Match(r, s, i, NoGroups, ic))

\* pattern.search(s) from position i on: the leftmost match, None if none
SearchFrom(r, s, i, ic) ==
    Leftmost(r, s, ic,
             {j \in i..(Len(s) + 1) : Match(r, s, j, NoGroups, ic) # <<>>})

Search(r, s, ic) == SearchFrom(r, s, 1, ic)

RECURSIVE SubFrom(_, _, _, _)

\* s from i on with the match m cut out and the rest treated alike; an
\* empty match leaves the character behind it in place
CutMatch(r, s, i, ic, m) ==
    IF ~m.found THEN SubSeq(s, i, Len(s))
    ELSE SubSeq(s, i, m.start - 1)
         \o (IF m.end > m.start THEN SubFrom(r, s, m.end, ic)
             ELSE IF m.start <= Len(s)
                  THEN CharAt(s, m.start)
                       \o SubFrom(r, s, m.start + 1, ic)
                  ELSE "")

\* pattern.sub("", s) from position i on: every non-overlapping match,
\* leftmost first, is removed
SubFrom(r, s, i, ic) == CutMatch(r, s, i, ic, SearchFrom(r, s, i, ic))

Sub(r, s, ic) == SubFrom(r, s, 1, ic)

\* str.strip()
RECURSIVE StripWs(_)
StripWs(s) ==
    IF s = "" THEN ""
    ELSE IF CharAt(s, 1) \in Whitespace THEN StripWs(SubSeq(s, 2, Len(s)))
    ELSE IF CharAt(s, Len(s)) \in Whitespace
         THEN StripWs(SubSeq(s, 1, Len(s) - 1))
    ELSE s

(***************************************************************************)
(* metadata.py: the patterns and the extractors.                           *)
(***************************************************************************)
AlnumChars == CharSet(UpperLetters) \cup CharSet(LowerLetters) \cup DigitChars
OrdinalSuffix == Alt(<<Lit("st"), Lit("nd"), Lit("rd"), Lit("th")>>)
OrdinalWord ==
    Alt(<<Lit("First"), Lit("Second"), Lit("Third"), Lit("Fourth"),
          Lit("Fifth"), Lit("Sixth"), Lit("Seventh"), Lit("Eighth"),
          Lit("Ninth"), Lit("Tenth")>>)
SeasonPrefix == Alt(<<Lit("S"), Cat(<<Lit("Season"), Opt(Ws)>>)>>)
EpisodePrefix ==
    Alt(<<Lit("E"), Cat(<<Lit("Ep"), Opt(Lit(".")), Opt(Ws)>>),
          Cat(<<Lit("Episode"), Opt(Ws)>>)>>)
RomanChars == Ch({"I", "V", "X"})
OpenBracket == Ch({"[", "("})
CloseBracket == Ch({"]", ")"})

\* PATTERNS; ic tells whether the pattern is compiled with re.IGNORECASE
PATTERNS ==
    [release_group_start |->
        [re |-> Alt(<<Cat(<<Bol, Lit("["), Grp(1, Plus(NotCh({"]"}))),
                            Lit("]")>>),
                      Cat(<<Bol, Lit("("), Grp(2, Plus(NotCh({")"}))),
                            Lit(")")>>)>>),
         ic |-> FALSE],
     release_group_end |->
        [re |-> Cat(<<Lit("-"), Grp(1, Plus(Ch(AlnumChars))),
                      Opt(Cat(<<Lit("."),
                                Rep(Ch(CharSet(LowerLetters)), 2, 4)>>)),
                      Eol>>),
         ic |-> FALSE],
     season |-> [re |-> Cat(<<SeasonPrefix, Grp(1, Plus(Dg))>>), ic |-> TRUE],
     season_part |->
        [re |-> Cat(<<Lit("Part"), Plus(Ws), Grp(1, Plus(Dg))>>), ic |-> TRUE],
     season_cour |->
        [re |-> Cat(<<Lit("Cour"), Plus(Ws), Grp(1, Plus(Dg))>>), ic |-> TRUE],
     season_ordinal_num |->
        [re |-> Cat(<<Grp(1, Plus(Dg)), OrdinalSuffix, Plus(Ws),
                      Lit("Season")>>),
         ic |-> TRUE],
     season_ordinal_word |->
        [re |-> Cat(<<Grp(1, OrdinalWord), Plus(Ws), Lit("Season")>>),
         ic |-> TRUE],
     season_roman |->
        [re |-> Cat(<<Lit("Season"), Plus(Ws), Grp(1, Plus(RomanChars)), Wb>>),
         ic |-> TRUE],
     episode |->
        [re |-> Alt(<<Cat(<<EpisodePrefix, Grp(1, Plus(Dg))>>),
                      Cat(<<Ch(Whitespace \cup {"-"}), Opt(Ws),
                            Grp(2, Rep(Dg, 2, 3)),
                            Alt(<<Ws, Eol, Lit("["), Lit("(")>>)>>)>>),
         ic |-> TRUE],
     quality |->
        [re |-> Grp(1, Alt(<<Lit("4K"), Lit("2160p"), Lit("1080p"),
                             Lit("720p"), Lit("480p"), Lit("360p"),
                             Lit("FHD"), Lit("HD"), Lit("1920x1080"),
                             Lit("1280x720"), Lit("SD")>>)),
         ic |-> TRUE],
     audio_english |->
        [re |-> Grp(1, Alt(<<Cat(<<Lit("English"), Star(Ws), Lit("Dub")>>),
                             Cat(<<Lit("Eng"), Star(Ws), Lit("Dub")>>),
                             Lit("Dubbed"),
                             Cat(<<Lit("Dual"), Star(Ws), Lit("Audio")>>),
                             Cat(<<Wb, Lit("DUAL"), Wb>>),
                             Cat(<<Wb, Lit("Dub"), Wb>>)>>)),
         ic |-> TRUE],
     audio_japanese |->
        [re |-> Grp(1, Alt(<<Lit("Japanese"), Lit("JPN"), Lit("Raw"),
                             Cat(<<Wb, Lit("Jap"), Wb>>)>>)),
         ic |-> TRUE],
     sub_english |->
        [re |-> Grp(1, Alt(<<Cat(<<Lit("English"), Star(Ws), Lit("Sub")>>),
                             Cat(<<Lit("Eng"), Star(Ws), Lit("Sub")>>),
                             Lit("Subbed"),
                             Cat(<<Wb, Lit("Sub"), Wb>>),
                             Lit("[Eng]"), Lit("English")>>)),
         ic |-> TRUE],
     sub_multi |->
        [re |-> Grp(1, Alt(<<Cat(<<Lit("Multi"), Opt(Lit("-")), Lit("Sub")>>),
                             Lit("MultiSub")>>)),
         ic |-> TRUE]]

\* PATTERNS[name].search(text)
PatternSearch(name, text) == Search(PATTERNS[name].re, text, PATTERNS[name].ic)

\* lines 64-72, given the matches of the two patterns
release_group_from(start, end) ==
    IF start.found
    THEN IF start.caps[1].ok /\ start.caps[1].s # ""
         THEN start.caps[1].s ELSE start.caps[2].s
    ELSE IF end.found THEN end.caps[1].s
    ELSE "Unknown"

\* lines 61-73
extract_release_group(title) ==
    release_group_from(PatternSearch("release_group_start", title),
                       PatternSearch("release_group_end", title))

ORDINAL_WORDS ==
    [first |-> 1, second |-> 2, third |-> 3, fourth |-> 4, fifth |-> 5,
     sixth |-> 6, seventh |-> 7, eighth |-> 8, ninth |-> 9, tenth |-> 10]

\* lines 91-93
_parse_ordinal_word(word) ==
    IF Lower(word) \in DOMAIN ORDINAL_WORDS
    THEN ORDINAL_WORDS[Lower(word)] ELSE 1

\* str.upper() on the letters a Roman numeral match can hold
UpperRoman(c) ==
    CASE c = "i" -> "I" [] c = "v" -> "V" [] c = "x" -> "X" [] OTHER -> c

roman_values(c) ==
    CASE c = "I" -> 1 [] c = "V" -> 5 [] c = "X" -> 10 [] OTHER -> 0

\* lines 101-107: the loop over reversed(numeral.upper()), at character k
RECURSIVE roman_loop(_, _, _, _)
roman_loop(numeral, k, result, prev_value) ==
    IF k < 1 THEN result
    ELSE LET value == roman_values(UpperRoman(CharAt(numeral, k)))
         IN  roman_loop(numeral, k - 1,
                        IF value < prev_value THEN result - value
                                              ELSE result + value,
                        value)

\* lines 96-108
_parse_roman_numeral(numeral) ==
    LET result == roman_loop(numeral, Len(numeral), 0, 0)
    IN  IF result > 0 THEN result ELSE 1

\* lines 117-153: the season number given the matches of the six patterns,
\* asked in this order; [found |-> FALSE] stands for None
season_number(standard, ordinal_num, ordinal_word, roman, part, cour) ==
    IF standard.found
    THEN [found |-> TRUE, value |-> ParseInt(standard.caps[1].s).value]
    ELSE IF ordinal_num.found
    THEN [found |-> TRUE, value |-> ParseInt(ordinal_num.caps[1].s).value]
    ELSE IF ordinal_word.found
    THEN [found |-> TRUE,
          value |-> _parse_ordinal_word(ordinal_word.caps[1].s)]
    ELSE IF roman.found
    THEN [found |-> TRUE, value |-> _parse_roman_numeral(roman.caps[1].s)]
    ELSE IF part.found
    THEN [found |-> TRUE, value |-> ParseInt(part.caps[1].s).value]
    ELSE IF cour.found
    THEN [found |-> TRUE, value |-> ParseInt(cour.caps[1].s).value]
    ELSE [found |-> FALSE, value |-> 0]

\* lines 111-154
_extract_season_number(text) ==
    season_number(PatternSearch("season", text),
                  PatternSearch("season_ordinal_num", text),
                  PatternSearch("season_ordinal_word", text),
                  PatternSearch("season_roman", text),
                  PatternSearch("season_part", text),
                  PatternSearch("season_cour", text))

\* f"Season {season_num}"
season_label(season_num) == "Season " \o IntToStr(season_num.value)

\* mutant: the description is asked before the title
season_description_first(in_title, in_description) ==
    IF in_description.found THEN season_label(in_description)
    ELSE IF in_title.found THEN season_label(in_title)
    ELSE "Season 1"

extract_season_description_first(title, description) ==
    season_description_first(_extract_season_number(title),
                             _extract_season_number(description))

\* lines 160-170, given the season numbers of the title and the description
season_title_first(in_title, in_description) ==
    IF in_title.found THEN season_label(in_title)
    ELSE IF in_description.found THEN season_label(in_description)
    ELSE "Season 1"

\* lines 157-170
extract_season(title, description) ==
    season_title_first(_extract_season_number(title),
                       _extract_season_number(description))

\* lines 176-179, given the match of the episode pattern
episode_from(match) ==
    IF match.found
    THEN "Episode "
         \o IntToStr(ParseInt(IF match.caps[1].ok /\ match.caps[1].s # ""
                               THEN match.caps[1].s
                               ELSE match.caps[2].s).value)
    ELSE ""

\* lines 173-179
extract_episode(title) == episode_from(PatternSearch("episode", title))

\* lines 185-194, given the matches in the title and in the description
quality_from(in_title, in_description) ==
    IF in_title.found THEN in_title.caps[1].s
    ELSE IF in_description.found THEN in_description.caps[1].s
    ELSE "Unknown"

\* lines 182-194
extract_quality(title, description) ==
    quality_from(PatternSearch("quality", title),
                 PatternSearch("quality", description))

\* lines 197-213
extract_audio_language(title, description, category) ==
    LET combined == title \o " " \o description
    IN  IF PatternSearch("audio_english", combined).found THEN "English"
        ELSE IF PatternSearch("audio_japanese", combined).found
        THEN "Japanese"
        ELSE IF Contains(category, "Raw") THEN "Japanese"
        ELSE "Japanese"

\* lines 216-234
extract_subtitle_language(title, description, category) ==
    LET combined == title \o " " \o description
    IN  IF PatternSearch("sub_multi", combined).found THEN "Multi"
        ELSE IF PatternSearch("sub_english", combined).found THEN "English"
        ELSE IF Contains(category, "English-translated") THEN "English"
        ELSE IF Contains(category, "Raw") THEN "None"
        ELSE "Unknown"

\* lines 243-266: the patterns of the re.sub calls, in the order of the
\* calls, each with its flags
NameSuffixes ==
    <<[re |-> Cat(<<Star(Ws), SeasonPrefix, Plus(Dg), Star(Dot)>>),
       ic |-> TRUE],
      [re |-> Cat(<<Star(Ws), Plus(Dg), OrdinalSuffix, Plus(Ws),
                    Lit("Season"), Star(Dot)>>),
       ic |-> TRUE],
      [re |-> Cat(<<Star(Ws), OrdinalWord, Plus(Ws), Lit("Season"),
                    Star(Dot)>>),
       ic |-> TRUE],
      [re |-> Cat(<<Star(Ws), Lit("Season"), Plus(Ws), Plus(RomanChars), Wb,
                    Star(Dot)>>),
       ic |-> TRUE],
      [re |-> Cat(<<Star(Ws), Lit("Part"), Plus(Ws), Plus(Dg), Star(Dot)>>),
       ic |-> TRUE],
      [re |-> Cat(<<Star(Ws), Lit("Cour"), Plus(Ws), Plus(Dg), Star(Dot)>>),
       ic |-> TRUE],
      [re |-> Cat(<<Star(Ws), EpisodePrefix, Plus(Dg), Star(Dot)>>),
       ic |-> TRUE],
      [re |-> Cat(<<Star(Ws), Lit("-"), Star(Ws), Plus(Dg), Star(Dot)>>),
       ic |-> FALSE],
      [re |-> Cat(<<Star(Ws), OpenBracket, Star(NotCh({"]", ")"})),
                    CloseBracket, Star(Ws), Eol>>),
       ic |-> FALSE],
      [re |-> Cat(<<Star(Ws), OpenBracket, Star(Dot), Eol>>), ic |-> FALSE]>>

\* name after the re.sub calls k, k+1, ... of lines 243-266 (they leave an
\* empty name empty)
RECURSIVE remove_suffixes(_, _)
remove_suffixes(name, k) ==
    IF k > Len(NameSuffixes) \/ name = "" THEN name
    ELSE remove_suffixes(Sub(NameSuffixes[k].re, name, NameSuffixes[k].ic),
                         k + 1)

\* line 268: name if name else "Unknown"
name_or_unknown(name) == IF name # "" THEN name ELSE "Unknown"

\* lines 237-268
extract_anime_name(title) ==
    name_or_unknown(
        StripWs(remove_suffixes(
            StripWs(Sub(PATTERNS.release_group_start.re, title, FALSE)), 1)))

(***************************************************************************)
(* cache.py: the disk cache under ~/.cache and the CachedHTTPClient.       *)
(*                                                                         *)
(* An optional value is None or Some(v).  The clock counts hours; a        *)
(* timestamp is written as the decimal string of the hour.  The metadata   *)
(* file is MissingFile, CorruptFile (no JSON can be read from it) or a     *)
(* JsonFile with a query and a timestamp, each of the two None when the    *)
(* key is absent or null.  The html cache maps each cached URL to the      *)
(* text of its file.                                                       *)
(* The file system is taken to work: no OSError on a read or a write.      *)
(***************************************************************************)
Some(v) == [is_none |-> FALSE, value |-> v]

MissingFile == [state |-> "missing"]
CorruptFile == [state |-> "corrupt"]
JsonFile(query, timestamp) ==
    [state |-> "json", query |-> query, timestamp |-> timestamp]

CACHE_TTL == 24

\* datetime.now().isoformat()
isoformat(hour) == IntToStr(hour)

\* datetime.fromisoformat(s): [ok |-> FALSE] stands for ValueError
fromisoformat(s) ==
    IF s # "" /\ \A i \in 1..Len(s) : CharAt(s, i) \in DigitChars
    THEN [ok |-> TRUE, value |-> DigitsValue(s, 0)]
    ELSE [ok |-> FALSE, value |-> 0]

\* lines 34-41: the dict read from the metadata file, {} when there is none
_read_metadata(file) ==
    IF file.state = "json"
    THEN [query |-> file.query, timestamp |-> file.timestamp]
    ELSE [query |-> None, timestamp |-> None]

\* mutant: expiry at the age of 24 hours already
_is_cache_expired_at_ttl(timestamp_str, now_hour) ==
    IF timestamp_str = None THEN TRUE
    ELSE LET timestamp == fromisoformat(timestamp_str.value)
         IN  IF timestamp.ok THEN now_hour - timestamp.value >= CACHE_TTL
             ELSE TRUE

\* mutant: a timestamp that parses never expires
_is_cache_expired_never(timestamp_str, now_hour) ==
    IF timestamp_str = None THEN TRUE
    ELSE ~fromisoformat(timestamp_str.value).ok

\* lines 66-74 (not timestamp_str holds for None and for "", and "" is not
\* an ISO timestamp either)
_is_cache_expired(timestamp_str, now_hour) ==
    IF timestamp_str = None THEN TRUE
    ELSE LET timestamp == fromisoformat(timestamp_str.value)
         IN  IF timestamp.ok THEN now_hour - timestamp.value > CACHE_TTL
             ELSE TRUE

\* lines 121-129
should_invalidate(file, current_query, now_hour) ==
    LET metadata == _read_metadata(file)
    IN  \/ current_query # None /\ metadata.query # current_query
        \/ _is_cache_expired(metadata.timestamp, now_hour)

EmptyCache == [url \in {} |-> ""]

\* lines 110-137: the metadata file and the html cache after
\* CachedHTTPClient(current_query) has been created
_initialize_cache(file, cache, current_query, now_hour) ==
    IF should_invalidate(file, current_query, now_hour)
    THEN [metadata_file |-> JsonFile(current_query,
                                     Some(isoformat(now_hour))),
          html_cache |-> EmptyCache,
          invalidated |-> TRUE]
    ELSE [metadata_file |-> file, html_cache |-> cache, invalidated |-> FALSE]

\* Path.write_text(content, encoding="utf-8"): newline=None writes "\n" as
\* os.linesep, which is "\n" itself on POSIX
write_text(content) == content

\* Path.read_text(encoding="utf-8"): newline=None reads in universal
\* newlines mode, "\r\n" and a lone "\r" both arrive as "\n"
RECURSIVE read_text(_)
read_text(content) ==
    LET i == IndexOf("\r", content)
    IN  IF i = 0 THEN content
        ELSE SubSeq(content, 1, i - 1) \o "\n"
             \o read_text(SubSeq(content,
                                 IF i < Len(content)
                                    /\ CharAt(content, i + 1) = "\n"
                                 THEN i + 2 ELSE i + 1,
                                 Len(content)))

\* lines 143-153: None when the URL has no cache file
_read_from_cache(cache, url) ==
    IF url \in DOMAIN cache THEN Some(read_text(cache[url])) ELSE None

\* lines 155-166
_write_to_cache(cache, url, content) ==
    [u \in DOMAIN cache \cup {url} |->
        IF u = url THEN write_text(content) ELSE cache[u]]

\* what httpx may do with a request: raise (timeout, connection error) or
\* deliver a response
Raised(error) ==
    [raised |-> TRUE, error |-> error, status_code |-> 0, text |-> ""]
Response(status_code, text) ==
    [raised |-> FALSE, error |-> "", status_code |-> status_code,
     text |-> text]

\* mutant: every response the network delivers is cached, whatever its
\* status
client_get_caching_every_status(cache, url, network) ==
    LET cached_content == _read_from_cache(cache, url)
    IN  IF cached_content # None
        THEN [response |-> Response(200, cached_content.value),
              html_cache |-> cache, requested |-> FALSE,
              cache_read |-> TRUE]
        ELSE [response |-> network,
              html_cache |-> IF ~network.raised
                             THEN _write_to_cache(cache, url, network.text)
                             ELSE cache,
              requested |-> TRUE, cache_read |-> TRUE]

\* lines 182-195, on an open client: the response (or the exception of the
\* network), the html cache afterwards, whether the network was asked and
\* whether the cache file of the URL was looked for;
\* network is the outcome the request has if it is made
client_get(cache, url, network) ==
    LET cached_content == _read_from_cache(cache, url)
    IN  IF cached_content # None
        THEN [response |-> Response(200, cached_content.value),
              html_cache |-> cache, requested |-> FALSE,
              cache_read |-> TRUE]
        ELSE [response |-> network,
              html_cache |-> IF ~network.raised /\ network.status_code = 200
                             THEN _write_to_cache(cache, url, network.text)
                             ELSE cache,
              requested |-> TRUE, cache_read |-> TRUE]

(***************************************************************************)
(* grouper.py: group_torrents_deterministic                                *)
(*                                                                         *)
(* A Torrent is [id, name, seeders, metadata]; a group's torrents field    *)
(* holds references to the caller's Torrent objects, modelled as their     *)
(* positions in the list.                                                  *)
(***************************************************************************)
\* mutant: the fallback is built as TorrentMetadata(), the name forgotten
RECURSIVE ensure_metadata_unnamed(_, _)
ensure_metadata_unnamed(ts, name) ==
    IF ts = <<>> THEN <<>>
    ELSE <<IF Head(ts).metadata = None
           THEN [Head(ts) EXCEPT !.metadata = TorrentMetadata("Unknown")]
           ELSE Head(ts)>> \o ensure_metadata_unnamed(Tail(ts), name)

\* lines 35-37: attach the fallback metadata where there is none
RECURSIVE ensure_metadata(_, _)
ensure_metadata(ts, name) ==
    IF ts = <<>> THEN <<>>
    ELSE <<IF Head(ts).metadata = None
           THEN [Head(ts) EXCEPT !.metadata = TorrentMetadata(name)]
           ELSE Head(ts)>> \o ensure_metadata(Tail(ts), name)

\* mutant: groups_dict[key] = [torrent], the bucket overwritten
dict_overwrite(d, key, i) ==
    IF \E k \in 1..Len(d) : d[k].key = key
    THEN LET k == CHOOSE k \in 1..Len(d) : d[k].key = key
         IN  [d EXCEPT ![k].torrent_list = <<i>>]
    ELSE Append(d, [key |-> key, torrent_list |-> <<i>>])

\* mutant: groups_dict[key].insert(0, torrent)
dict_prepend(d, key, i) ==
    IF \E k \in 1..Len(d) : d[k].key = key
    THEN LET k == CHOOSE k \in 1..Len(d) : d[k].key = key
         IN  [d EXCEPT ![k].torrent_list = <<i>> \o @]
    ELSE Append(d, [key |-> key, torrent_list |-> <<i>>])

\* line 43: groups_dict[key].append(torrent); d lists the dict's items in
\* insertion order
dict_append(d, key, i) ==
    IF \E k \in 1..Len(d) : d[k].key = key
    THEN LET k == CHOOSE k \in 1..Len(d) : d[k].key = key
         IN  [d EXCEPT ![k].torrent_list = Append(@, i)]
    ELSE Append(d, [key |-> key, torrent_list |-> <<i>>])

\* lines 40-43: the dict after the loop has handled torrents i, i+1, ...
RECURSIVE groups_dict(_, _, _)
groups_dict(ts, i, d) ==
    IF i > Len(ts) THEN d
    ELSE groups_dict(ts, i + 1, dict_append(d, group_key(ts[i].metadata), i))

\* lines 52-60: the episode numbers parsed from the members, in member order
RECURSIVE parsed_episodes(_, _)
parsed_episodes(ts, torrent_list) ==
    IF torrent_list = <<>> THEN <<>>
    ELSE LET t == ts[Head(torrent_list)]
             rest == parsed_episodes(ts, Tail(torrent_list))
         IN  IF t.metadata # None /\ t.metadata.episode # ""
             THEN LET n == ParseInt(Replace(t.metadata.episode, "Episode ", ""))
                  IN  IF n.ok THEN <<n.value>> \o rest ELSE rest
             ELSE rest

\* mutant: the range taken from the first and the last member, unsorted
episode_range_unsorted(episodes) ==
    IF episodes # <<>>
    THEN IF Len(episodes) = 1
         THEN "Episode " \o IntToStr(episodes[1])
         ELSE "Episodes " \o IntToStr(episodes[1]) \o "-"
                \o IntToStr(episodes[Len(episodes)])
    ELSE "Various"

\* lines 62-69 (the sort of line 63 does not change len, min or max)
episode_range(episodes) ==
    IF episodes # <<>>
    THEN IF Len(episodes) = 1
         THEN "Episode " \o IntToStr(episodes[1])
         ELSE "Episodes " \o IntToStr(MinSeq(episodes)) \o "-"
                \o IntToStr(MaxSeq(episodes))
    ELSE "Various"

\* lines 72-74
is_dubbed(ts, torrent_list) ==
    \/ Lower(ts[torrent_list[1]].metadata.audio_language) = "english"
    \/ \E k \in 1..Len(torrent_list) :
          contains_dub_keywords(ts[torrent_list[k]].name)

\* lines 47-86: the TorrentGroup built from one bucket
TorrentGroup(ts, torrent_list) ==
    LET metadata == ts[torrent_list[1]].metadata
    IN  [name |-> group_name(metadata),
         description |-> "Release group: " \o metadata.release_group
                           \o ", Quality: " \o metadata.quality
                           \o ", Audio: " \o metadata.audio_language
                           \o ", Subs: " \o metadata.subtitle_language,
         torrents |-> torrent_list,
         episode_range |-> episode_range(parsed_episodes(ts, torrent_list)),
         quality |-> metadata.quality,
         is_dubbed |-> is_dubbed(ts, torrent_list)]

\* TorrentGroup.total_seeders
RECURSIVE seeders_sum(_, _)
seeders_sum(torrent_list, ts) ==
    IF torrent_list = <<>> THEN 0
    ELSE ts[Head(torrent_list)].seeders + seeders_sum(Tail(torrent_list), ts)

total_seeders(g, ts) == seeders_sum(g.torrents, ts)

\* mutant: an ascending sort that is then reversed, which reverses the ties
sort_insert_reversing_ties(sorted, g, ts) ==
    LET k == Cardinality({j \in 1..Len(sorted) :
                 total_seeders(sorted[j], ts) > total_seeders(g, ts)})
    IN  SubSeq(sorted, 1, k) \o <<g>> \o SubSeq(sorted, k + 1, Len(sorted))

\* one step of the stable descending sort: g goes behind every group whose
\* total is greater or equal
sort_insert(sorted, g, ts) ==
    LET k == Cardinality({j \in 1..Len(sorted) :
                 total_seeders(sorted[j], ts) >= total_seeders(g, ts)})
    IN  SubSeq(sorted, 1, k) \o <<g>> \o SubSeq(sorted, k + 1, Len(sorted))

\* line 90: groups.sort(key=total_seeders, reverse=True)
RECURSIVE sort_groups(_, _, _)
sort_groups(groups, sorted, ts) ==
    IF groups = <<>> THEN sorted
    ELSE sort_groups(Tail(groups), sort_insert(sorted, Head(groups), ts), ts)

\* lines 40-87: the groups in dict order
RECURSIVE groups_of(_, _)
groups_of(d, ts) ==
    IF d = <<>> THEN <<>>
    ELSE <<TorrentGroup(ts, Head(d).torrent_list)>> \o groups_of(Tail(d), ts)

build_groups(ts) == groups_of(groups_dict(ts, 1, <<>>), ts)

\* mutant: the groups are built with a TorrentMetadata() fallback, while the
\* torrents keep the named one
group_torrents_unnamed_fallback(ts, name) ==
    IF ts = <<>> THEN [torrents |-> ts, groups |-> <<>>]
    ELSE LET ensured == ensure_metadata(ts, name)
             used == ensure_metadata(ts, "Unknown")
         IN  [torrents |-> ensured,
              groups |-> sort_groups(build_groups(used), <<>>, used)]

\* lines 31-93: the list of torrents after the call and the returned groups
group_torrents_deterministic(ts, name) ==
    IF ts = <<>> THEN [torrents |-> ts, groups |-> <<>>]
    ELSE LET ensured == ensure_metadata(ts, name)
         IN  [torrents |-> ensured,
              groups |-> sort_groups(build_groups(ensured), <<>>, ensured)]

\* a CachedHTTPClient object: its query and whether self._client is set
CachedHTTPClient(current_query) ==
    [current_query |-> current_query, open |-> FALSE]

\* mutant: no test of self._client
get_without_context(self, cache, url, network) ==
    client_get(cache, url, network)

\* lines 168-195
get(self, cache, url, network) ==
    IF ~self.open
    THEN [response |-> Raised("RuntimeError"), html_cache |-> cache,
          requested |-> FALSE, cache_read |-> FALSE]
    ELSE client_get(cache, url, network)

(***************************************************************************)
(* metadata.py: fetching the detail pages.                                 *)
(*                                                                         *)
(* A dict is a record that holds the keys it has.  A Torrent of this part  *)
(* is [id, name, seeders, submitter, metadata].                            *)
(***************************************************************************)
BASE_URL == "https://nyaa.si"

\* d.get(key, default)
Get(d, key, default) == IF key \in DOMAIN d THEN d[key] ELSE default

\* the detail pages of the model: the text of a page and what BeautifulSoup
\* selects in it (lines 276-306), None for an element the page lacks
Pages ==
    <<[text |-> "<h3>[H] Other S03E07 [1080p]</h3><i>Bob</i><b>Raw</b>Dub",
       title |-> Some("[H] Other S03E07 [1080p]"),
       submitter |-> Some("Bob"),
       category |-> Some("Anime - Raw"),
       description |-> Some("Dub")],
      [text |-> "<i>Bob</i>S04 720p",
       title |-> None,
       submitter |-> Some("Bob"),
       category |-> None,
       description |-> Some("S04 720p")]>>

PageTexts == {Pages[k].text : k \in 1..Len(Pages)}

BeautifulSoup(text) ==
    Pages[CHOOSE k \in 1..Len(Pages) : Pages[k].text = text]

\* f"{BASE_URL}/view/{torrent_id}"
view_url(torrent_id) == BASE_URL \o "/view/" \o IntToStr(torrent_id)

\* lines 273-322 behind client.get: None when the request raised or
\* raise_for_status() raises, else the result dict (file_list, which no
\* extractor reads, is left out)
fetch_detail_page(response) ==
    IF response.raised THEN None
    ELSE IF response.status_code < 200 \/ response.status_code > 299
    THEN None
    ELSE LET soup == BeautifulSoup(response.text)
         IN  Some([title |-> IF soup.title # None
                             THEN soup.title.value ELSE "",
                   submitter |-> IF soup.submitter # None
                                 THEN soup.submitter.value ELSE "Anonymous",
                   category |-> IF soup.category # None
                                THEN soup.category.value ELSE "",
                   description |-> IF soup.description # None
                                   THEN soup.description.value ELSE ""])

\* mutant: the release group is always extracted from the title
extract_metadata_from_detail_by_title(detail) ==
    LET title == Get(detail, "title", "")
        description == Get(detail, "description", "")
        category == Get(detail, "category", "")
    IN  [anime_name |-> extract_anime_name(title),
         season |-> extract_season(title, description),
         episode |-> extract_episode(title),
         quality |-> extract_quality(title, description),
         audio_language |->
             extract_audio_language(title, description, category),
         subtitle_language |->
             extract_subtitle_language(title, description, category),
         release_group |-> extract_release_group(title),
         description |-> IF Len(description) > 200
                         THEN SubSeq(description, 1, 200) ELSE description]

\* lines 325-345
extract_metadata_from_detail(detail) ==
    LET title == Get(detail, "title", "")
        description == Get(detail, "description", "")
        category == Get(detail, "category", "")
        submitter == Get(detail, "submitter", "Anonymous")
    IN  [anime_name |-> extract_anime_name(title),
         season |-> extract_season(title, description),
         episode |-> extract_episode(title),
         quality |-> extract_quality(title, description),
         audio_language |->
             extract_audio_language(title, description, category),
         subtitle_language |->
             extract_subtitle_language(title, description, category),
         release_group |-> IF submitter # "" /\ submitter # "Anonymous"
                           THEN submitter
                           ELSE extract_release_group(title),
         description |-> IF Len(description) > 200
                         THEN SubSeq(description, 1, 200) ELSE description]

\* mutant: the fallback keeps the default audio and subtitle languages of a
\* detail page
fallback_metadata_with_languages(name) ==
    [anime_name |-> extract_anime_name(name),
     season |-> extract_season(name, ""),
     episode |-> extract_episode(name),
     quality |-> extract_quality(name, ""),
     audio_language |-> extract_audio_language(name, "", ""),
     subtitle_language |-> extract_subtitle_language(name, "", ""),
     release_group |-> extract_release_group(name),
     description |-> ""]

\* lines 381-390: the metadata built from the torrent's own name
fallback_metadata(name) ==
    [anime_name |-> extract_anime_name(name),
     season |-> extract_season(name, ""),
     episode |-> extract_episode(name),
     quality |-> extract_quality(name, ""),
     audio_language |-> "Unknown",
     subtitle_language |-> "Unknown",
     release_group |-> extract_release_group(name),
     description |-> ""]

\* mutant: a failed fetch leaves the torrent as it is
fetch_one_skipping_failures(torrent, detail) ==
    IF detail # None
    THEN [torrent |-> [torrent EXCEPT
                         !.metadata = extract_metadata_from_detail(detail.value),
                         !.submitter =
                             Get(detail.value, "submitter", "Anonymous")],
          assignments |-> 1]
    ELSE [torrent |-> torrent, assignments |-> 0]

\* lines 378-390: the torrent after its turn in the loop and the number of
\* assignments to torrent.metadata the turn has made
fetch_one(torrent, detail) ==
    IF detail # None
    THEN [torrent |-> [torrent EXCEPT
                         !.metadata = extract_metadata_from_detail(detail.value),
                         !.submitter =
                             Get(detail.value, "submitter", "Anonymous")],
          assignments |-> 1]
    ELSE [torrent |-> [torrent EXCEPT
                         !.metadata = fallback_metadata(torrent.name)],
          assignments |-> 1]

\* the log entry of one client.get(url): the response returned (or the
\* exception raised) and whether the network was asked
GetEvent(url, got) ==
    [op |-> "get", url |-> url, response |-> got.response,
     requested |-> got.requested, cache_read |-> got.cache_read]

\* the log entry of one CachedHTTPClient(current_query)
CreateEvent(current_query, initialized) ==
    [op |-> "create", current_query |-> current_query,
     invalidated |-> initialized.invalidated]

\* lines 378-395: st after the turn of torrent i, got being what
\* client.get(url) gave and turn what the turn made of the torrent
after_turn(st, i, url, got, turn) ==
    [torrents |-> [st.torrents EXCEPT ![i] = turn.torrent],
     html_cache |-> got.html_cache,
     log |-> Append(st.log, GetEvent(url, got)),
     assignments |-> Append(st.assignments, turn.assignments)]

\* lines 373-395: the loop from torrent i on; network[i] is what the
\* network does with a request for the page of torrent i; st holds the
\* torrents, the html cache, the log of the client.get calls and the
\* number of assignments to each torrent.metadata
RECURSIVE fetch_loop(_, _, _)
fetch_loop(network, i, st) ==
    IF i > Len(st.torrents) THEN st
    ELSE LET torrent == st.torrents[i]
             url == view_url(torrent.id)
             got == client_get(st.html_cache, url, network[i])
         IN  fetch_loop(network, i + 1,
                 after_turn(st, i, url, got,
                     fetch_one(torrent, fetch_detail_page(got.response))))

\* line 398: what the call leaves behind, st being the state the loop ended
\* in
fetched_with(file, st) ==
    [torrents |-> st.torrents,
     metadata_file |-> file,
     html_cache |-> st.html_cache,
     log |-> st.log,
     assignments |-> st.assignments]

\* lines 348-398: the list, the disk cache and the log after the call
fetch_metadata_for_torrents(ts, file, cache, now_hour, network) ==
    IF ts = <<>>
    THEN [torrents |-> ts, metadata_file |-> file, html_cache |-> cache,
          log |-> <<>>, assignments |-> <<>>]
    ELSE LET initialized == _initialize_cache(file, cache, None, now_hour)
         IN  fetched_with(initialized.metadata_file,
                 fetch_loop(network, 1,
                     [torrents |-> ts,
                      html_cache |-> initialized.html_cache,
                      log |-> <<CreateEvent(None, initialized)>>,
                      assignments |-> <<>>]))

\* grouper.py lines 35-37: the number of assignments to each
\* torrent.metadata that the grouping step makes
RECURSIVE ensure_assignments(_)
ensure_assignments(ts) ==
    IF ts = <<>> THEN <<>>
    ELSE <<IF Head(ts).metadata = None THEN 1 ELSE 0>>
         \o ensure_assignments(Tail(ts))

\* grouper.py line 125: what the call leaves behind, fetched being what
\* fetch_metadata_for_torrents left and grouped what the grouping made
grouped_with(fetched, grouped) ==
    [groups |-> grouped.groups,
     torrents |-> grouped.torrents,
     metadata_file |-> fetched.metadata_file,
     html_cache |-> fetched.html_cache,
     log |-> fetched.log,
     writes |-> [fetch |-> fetched.assignments,
                 group |-> ensure_assignments(fetched.torrents)]]

\* grouper.py lines 120-125
group_fetched(fetched, name) ==
    grouped_with(fetched, group_torrents_deterministic(fetched.torrents, name))

\* mutant: the client is created before the list is looked at
group_torrents_with_metadata_eager(ts, name, file, cache, now_hour, network) ==
    LET initialized == _initialize_cache(file, cache, None, now_hour)
    IN  IF ts = <<>>
        THEN [groups |-> <<>>, torrents |-> ts,
              metadata_file |-> initialized.metadata_file,
              html_cache |-> initialized.html_cache,
              log |-> <<CreateEvent(None, initialized)>>,
              writes |-> [fetch |-> <<>>, group |-> <<>>]]
        ELSE group_fetched(
                 fetch_metadata_for_torrents(ts, file, cache, now_hour,
                                             network),
                 name)

\* grouper.py lines 96-125: the returned groups with the list, the disk
\* cache and the log after the call; writes holds the assignments to each
\* torrent.metadata, by step
group_torrents_with_metadata(ts, name, file, cache, now_hour, network) ==
    IF ts = <<>>
    THEN [groups |-> <<>>, torrents |-> ts, metadata_file |-> file,
          html_cache |-> cache, log |-> <<>>,
          writes |-> [fetch |-> <<>>, group |-> <<>>]]
    ELSE group_fetched(
             fetch_metadata_for_torrents(ts, file, cache, now_hour, network),
             name)

(***************************************************************************)
(* Inputs: the lists a caller may hand over.                               *)
(***************************************************************************)
Metadata(rg, an, se, au, su, qu, ep) ==
    [anime_name |-> an, season |-> se, episode |-> ep, quality |-> qu,
     audio_language |-> au, subtitle_language |-> su, release_group |-> rg,
     description |-> ""]

\* the lists of the given lengths whose torrents are drawn from choices
\* ([name, seeders, metadata]); the id of a torrent is its position
InputLists(choices, lengths) ==
    UNION {{[i \in 1..n |-> [id |-> i, name |-> f[i].name,
                             seeders |-> f[i].seeders,
                             metadata |-> f[i].metadata]] :
              f \in [1..n -> choices]} : n \in lengths}

\* release groups and anime names with and without the pipe character
KeyMetadata ==
    {Metadata("a|b", "c", "Season 1", "Japanese", "English", "1080p", ""),
     Metadata("a", "b|c", "Season 1", "Japanese", "English", "1080p", ""),
     TorrentMetadata("c")}

KeyChoices ==
    [name : {"[a] c - 01"}, seeders : 0..MaxSeeders,
     metadata : KeyMetadata \cup {None}]

\* two values for each of the six key fields, the pipe character included
FieldMetadata ==
    {Metadata(rg, an, se, au, su, qu, "") :
        rg \in {"a", "a|b"}, an \in {"c", "b|c"},
        se \in {"Season 1", "Season 2"}, au \in {"Japanese", "English"},
        su \in {"English", "Unknown"}, qu \in {"1080p", "720p"}}

FieldChoices ==
    [name : {"[a] c - 01"}, seeders : {0}, metadata : FieldMetadata]

\* episode fields: canonical labels, a bare number, an unparsable label, none
Episodes == {"", "Episode 1", "Episode 3", "Episode 12", "07", "Batch"}

EpisodeChoices ==
    [name : {"[a] c"}, seeders : {0},
     metadata : {Metadata("a", "c", "Season 1", "Japanese", "English",
                          qu, ep) : qu \in {"1080p", "720p"},
                                    ep \in Episodes} \cup {None}]

\* audio languages in several cases; the last two have the same group key
DubMetadata ==
    {Metadata("a", "c", "Season 1", "English", "Unknown", "1080p", ""),
     Metadata("a", "c", "Season 1", "Japanese", "Unknown", "1080p", ""),
     Metadata("a", "c", "Season 1", "eNgLiSh|x", "y", "1080p", ""),
     Metadata("a", "c", "Season 1", "eNgLiSh", "x|y", "1080p", "")}

DubChoices ==
    [name : {"c [Dual Audio]", "c DUBBED", "c (Subbed) - 01"}, seeders : {0},
     metadata : DubMetadata]

(***************************************************************************)
(* The state machine.                                                      *)
(***************************************************************************)
NoWrites == [fetch |-> <<>>, group |-> <<>>]
NoExtracted == [metadata |-> None, season |-> None, names |-> <<>>]
NoNumeral == [numeral |-> "", result |-> None]

NoSearch == [args |-> None, result |-> None]

NoFiles == [path \in {} |-> ""]
NoDownload ==
    [args |-> None, requests |-> <<>>, files |-> NoFiles, result |-> None]

EmptyDir == [inodes |-> <<>>, tmp |-> 0, html |-> 0]

\* no call of _write_to_cache or _read_from_cache has been made
NoWriters ==
    /\ cache_dir = EmptyDir
    /\ writers = <<>>
    /\ seen = {}

call_vars == <<roman_call, search_call, download_call>>

ClockStart == 48

\* nothing fetched, nothing on disk, no client, nothing extracted
Untouched ==
    /\ calls = <<>>
    /\ returned = None
    /\ writes = NoWrites
    /\ metadata_file = MissingFile
    /\ html_cache = EmptyCache
    /\ now = ClockStart
    /\ client = None
    /\ log = <<>>
    /\ detail_arg = None
    /\ extracted = NoExtracted
    /\ stamps = <<>>
    /\ roman_call = NoNumeral
    /\ search_call = NoSearch
    /\ download_call = NoDownload
    /\ NoWriters

InitWith(lists, names) ==
    /\ torrents \in lists
    /\ input = torrents
    /\ anime_name \in names
    /\ results = <<>>
    /\ Untouched

Init == InitWith(InputLists(KeyChoices, 0..MaxTorrents), {"c", "d"})

\* a call group_torrents_deterministic(torrents, anime_name)
GroupTorrentsDeterministic ==
    /\ Len(results) < MaxCalls
    /\ LET out == group_torrents_deterministic(torrents, anime_name)
       IN  /\ torrents' = out.torrents
           /\ results' = Append(results, out.groups)
    /\ calls' = Append(calls, "group_torrents_deterministic")
    /\ UNCHANGED <<input, anime_name, returned, writes, metadata_file,
                   html_cache, now, client, log, detail_arg, extracted,
                   stamps, roman_call, search_call, download_call, cache_dir,
                   writers, seen>>

Next == GroupTorrentsDeterministic

Spec == Init /\ [][Next]_vars

\* pairs of torrents over all combinations of the key fields
InitFields == InitWith(InputLists(FieldChoices, {2}), {"c"})
SpecFields == InitFields /\ [][Next]_vars

\* lists that vary in the episode field
InitEpisodes == InitWith(InputLists(EpisodeChoices, 0..MaxTorrents), {"c"})
SpecEpisodes == InitEpisodes /\ [][Next]_vars

\* lists that vary in the torrent name and the audio language
InitDub == InitWith(InputLists(DubChoices, 0..MaxTorrents), {"c"})
SpecDub == InitDub /\ [][Next]_vars

(***************************************************************************)
(* The pipeline: search results without metadata, a disk cache left by an  *)
(* earlier run, and a network that answers each request for a detail page  *)
(* with an exception, an error status or one of the pages.                 *)
(***************************************************************************)
FetchNames == {"[G] Show - 05", "[G] S01"}

\* the lists of up to MaxFetched search results; the id of a torrent is its
\* position
FetchLists ==
    UNION {{[i \in 1..n |->
               [id |-> i, name |-> f[i], seeders |-> 0,
                submitter |-> "Anonymous", metadata |-> None]] :
            f \in [1..n -> FetchNames]} : n \in 0..MaxFetched}

NetworkOutcomes ==
    {Raised("httpx.ConnectError"), Response(404, "Not Found")}
        \cup {Response(200, text) : text \in PageTexts}

\* the disk an earlier run may have left: nothing; a fresh cache without
\* pages; a fresh and an expired cache that hold the page of torrent 1
CachedPage == [url \in {view_url(1)} |-> Pages[1].text]
Disks ==
    {[metadata_file |-> MissingFile, html_cache |-> EmptyCache],
     [metadata_file |-> JsonFile(None, Some(isoformat(ClockStart - 1))),
      html_cache |-> EmptyCache],
     [metadata_file |-> JsonFile(None, Some(isoformat(ClockStart - 1))),
      html_cache |-> CachedPage],
     [metadata_file |-> JsonFile(None, Some(isoformat(ClockStart - 25))),
      html_cache |-> CachedPage]}

InitFetch ==
    /\ torrents \in FetchLists
    /\ input = torrents
    /\ anime_name = "Hint"
    /\ results = <<>>
    /\ calls = <<>>
    /\ returned = None
    /\ writes = NoWrites
    /\ \E disk \in Disks :
          /\ metadata_file = disk.metadata_file
          /\ html_cache = disk.html_cache
    /\ now = ClockStart
    /\ client = None
    /\ log = <<>>
    /\ detail_arg = None
    /\ extracted = NoExtracted
    /\ stamps = <<>>
    /\ roman_call = NoNumeral
    /\ search_call = NoSearch
    /\ download_call = NoDownload
    /\ NoWriters

\* a call fetch_metadata_for_torrents(torrents)
FetchMetadataForTorrents ==
    /\ calls = <<>>
    /\ calls' = <<"fetch_metadata_for_torrents">>
    /\ \E network \in [1..Len(torrents) -> NetworkOutcomes] :
          \E out \in {fetch_metadata_for_torrents(torrents, metadata_file,
                                                 html_cache, now, network)} :
              /\ torrents' = out.torrents
              /\ returned' = Some(out.torrents)
              /\ writes' = [fetch |-> out.assignments, group |-> <<>>]
              /\ metadata_file' = out.metadata_file
              /\ html_cache' = out.html_cache
              /\ log' = log \o out.log
              /\ stamps' = stamps \o [i \in 1..Len(out.log) |-> now]
    /\ UNCHANGED <<input, anime_name, results, now, client, detail_arg,
                   extracted, roman_call, search_call, download_call,
                   cache_dir, writers, seen>>

\* a call group_torrents_with_metadata(torrents, anime_name)
GroupTorrentsWithMetadata ==
    /\ calls = <<>>
    /\ calls' = <<"group_torrents_with_metadata">>
    /\ \E network \in [1..Len(torrents) -> NetworkOutcomes] :
          \E out \in {group_torrents_with_metadata(torrents, anime_name,
                          metadata_file, html_cache, now, network)} :
              /\ torrents' = out.torrents
              /\ results' = Append(results, out.groups)
              /\ writes' = out.writes
              /\ metadata_file' = out.metadata_file
              /\ html_cache' = out.html_cache
              /\ log' = log \o out.log
              /\ stamps' = stamps \o [i \in 1..Len(out.log) |-> now]
    /\ UNCHANGED <<input, anime_name, returned, now, client, detail_arg,
                   extracted, roman_call, search_call, download_call,
                   cache_dir, writers, seen>>

NextFetch ==
    \/ FetchMetadataForTorrents
    \/ GroupTorrentsWithMetadata
    \/ GroupTorrentsDeterministic

SpecFetch == InitFetch /\ [][NextFetch]_vars

(***************************************************************************)
(* The extractors on their own: a detail dict is at hand, and              *)
(* extract_metadata_from_detail, extract_season and extract_anime_name are *)
(* called on it; extract_anime_name is called again on what it returned.   *)
(***************************************************************************)
MaxApplications == 2

ExtractTitles ==
    {"", "Show - 01", "[G] Show S02 - 05 [720p]", "Show 3rd Season Part 2",
     "Show Third Season IV", "Show Season II Part 3", "Show Part 2 Cour 3",
     "Show Cour 4", "Show Season IIE05", "Show-GRP", "(Grp) Show Cour 2 S3",
     "Show S2 3rd Season", "Show 2nd Season Third Season"}
ExtractDescriptions == {"", "Season 5", "Part 6"}
ExtractSubmitters == {"", "Anonymous", "Bob"}

\* the detail dicts: with every key the extractors read, and with the title
\* alone
ExtractDetails ==
    {[title |-> t, description |-> d, category |-> "", submitter |-> s] :
        t \in ExtractTitles, d \in ExtractDescriptions,
        s \in ExtractSubmitters}
    \cup {[title |-> t] : t \in ExtractTitles}

InitExtract ==
    /\ torrents = <<>>
    /\ input = torrents
    /\ anime_name = "Hint"
    /\ results = <<>>
    /\ calls = <<>>
    /\ returned = None
    /\ writes = NoWrites
    /\ metadata_file = MissingFile
    /\ html_cache = EmptyCache
    /\ now = ClockStart
    /\ client = None
    /\ log = <<>>
    /\ \E detail \in ExtractDetails : detail_arg = Some(detail)
    /\ extracted = NoExtracted
    /\ stamps = <<>>
    /\ roman_call = NoNumeral
    /\ search_call = NoSearch
    /\ download_call = NoDownload
    /\ NoWriters

\* a call extract_metadata_from_detail(detail)
ExtractMetadataFromDetail ==
    /\ extracted.metadata = None
    /\ extracted' =
          [extracted EXCEPT
              !.metadata = Some(extract_metadata_from_detail(detail_arg.value))]
    /\ UNCHANGED <<torrents, input, anime_name, results, calls, returned,
                   writes, metadata_file, html_cache, now, client, log,
                   detail_arg, stamps, roman_call, search_call, download_call,
                   cache_dir, writers, seen>>

\* a call extract_season(title, description) on the texts of the dict
ExtractSeason ==
    /\ extracted.season = None
    /\ extracted' =
          [extracted EXCEPT
              !.season = Some(extract_season(
                                 Get(detail_arg.value, "title", ""),
                                 Get(detail_arg.value, "description", "")))]
    /\ UNCHANGED <<torrents, input, anime_name, results, calls, returned,
                   writes, metadata_file, html_cache, now, client, log,
                   detail_arg, stamps, roman_call, search_call, download_call,
                   cache_dir, writers, seen>>

\* a call extract_anime_name: on the title first, then on the name the call
\* before returned
ExtractAnimeName ==
    /\ Len(extracted.names) < MaxApplications
    /\ extracted' =
          [extracted EXCEPT
              !.names = Append(@, extract_anime_name(
                                     IF @ = <<>>
                                     THEN Get(detail_arg.value, "title", "")
                                     ELSE @[Len(@)]))]
    /\ UNCHANGED <<torrents, input, anime_name, results, calls, returned,
                   writes, metadata_file, html_cache, now, client, log,
                   detail_arg, stamps, roman_call, search_call, download_call,
                   cache_dir, writers, seen>>

NextExtract ==
    \/ ExtractMetadataFromDetail
    \/ ExtractSeason
    \/ ExtractAnimeName

SpecExtract == InitExtract /\ [][NextExtract]_vars

(***************************************************************************)
(* The cached client on its own: clients are created, entered and left,    *)
(* pages are asked for, and the clock moves on.  client holds the client   *)
(* created last; log holds the creations and the get calls in their order. *)
(***************************************************************************)
MaxEvents == 4
MaxTicks == 2
TickHours == 13

Queries == {None, Some("a"), Some("b")}
Urls == {view_url(1), view_url(2)}
\* what the network may do with a request for each of the two URLs: the
\* first one cannot be reached, is not found or is a page; the second one
\* is a page with CRLF line ends
GetOutcomes(url) ==
    IF url = view_url(1)
    THEN {Raised("httpx.ConnectError"), Response(404, "Not Found"),
          Response(200, "<p>a</p>")}
    ELSE {Response(200, "a\r\nb")}

\* CachedHTTPClient(current_query)
CreateClient ==
    /\ Len(log) < MaxEvents
    /\ \E q \in Queries :
          \E out \in {_initialize_cache(metadata_file, html_cache, q, now)} :
              /\ client' = Some(CachedHTTPClient(q))
              /\ metadata_file' = out.metadata_file
              /\ html_cache' = out.html_cache
              /\ log' = Append(log, CreateEvent(q, out))
    /\ stamps' = Append(stamps, now)
    /\ UNCHANGED <<torrents, input, anime_name, results, calls, returned,
                   writes, now, detail_arg, extracted, roman_call,
                   search_call, download_call, cache_dir, writers, seen>>

\* lines 197-203
Enter ==
    /\ client # None
    /\ client' = Some([client.value EXCEPT !.open = TRUE])
    /\ UNCHANGED <<torrents, input, anime_name, results, calls, returned,
                   writes, metadata_file, html_cache, now, log, detail_arg,
                   extracted, stamps, roman_call, search_call, download_call,
                   cache_dir, writers, seen>>

\* lines 205-209
Exit ==
    /\ client # None
    /\ client' = Some([client.value EXCEPT !.open = FALSE])
    /\ UNCHANGED <<torrents, input, anime_name, results, calls, returned,
                   writes, metadata_file, html_cache, now, log, detail_arg,
                   extracted, stamps, roman_call, search_call, download_call,
                   cache_dir, writers, seen>>

\* client.get(url), the network answering with network if it is asked
ClientGet ==
    /\ client # None
    /\ Len(log) < MaxEvents
    /\ \E url \in Urls :
          \E network \in GetOutcomes(url) :
          \E out \in {get(client.value, html_cache, url, network)} :
              /\ html_cache' = out.html_cache
              /\ log' = Append(log, GetEvent(url, out))
    /\ stamps' = Append(stamps, now)
    /\ UNCHANGED <<torrents, input, anime_name, results, calls, returned,
                   writes, metadata_file, now, client, detail_arg, extracted,
                   roman_call, search_call, download_call, cache_dir, writers,
                   seen>>

\* time passes
Tick ==
    /\ now < ClockStart + MaxTicks * TickHours
    /\ now' = now + TickHours
    /\ UNCHANGED <<torrents, input, anime_name, results, calls, returned,
                   writes, metadata_file, html_cache, client, log, detail_arg,
                   extracted, stamps, roman_call, search_call, download_call,
                   cache_dir, writers, seen>>

InitCache ==
    /\ torrents = <<>>
    /\ input = torrents
    /\ anime_name = "Hint"
    /\ results = <<>>
    /\ Untouched

NextCache ==
    \/ CreateClient
    \/ Enter
    \/ Exit
    \/ ClientGet
    \/ Tick

SpecCache == InitCache /\ [][NextCache]_vars

\* the metadata files an earlier run, a crash or an editor may have left:
\* none, one that is no JSON, and JSON with or without a query and with no
\* timestamp, one that is no ISO timestamp, and one of 25, 24 and 23 hours
\* ago
CreateFiles ==
    {MissingFile, CorruptFile}
    \cup {JsonFile(q, t) :
            q \in Queries,
            t \in {None, Some(""), Some("x"),
                   Some(isoformat(ClockStart - 25)),
                   Some(isoformat(ClockStart - 24)),
                   Some(isoformat(ClockStart - 23))}}

CreateCaches == {EmptyCache, [url \in {view_url(1)} |-> "<p>a</p>"]}

InitCreate ==
    /\ torrents = <<>>
    /\ input = torrents
    /\ anime_name = "Hint"
    /\ results = <<>>
    /\ calls = <<>>
    /\ returned = None
    /\ writes = NoWrites
    /\ metadata_file \in CreateFiles
    /\ html_cache \in CreateCaches
    /\ now = ClockStart
    /\ client = None
    /\ log = <<>>
    /\ detail_arg = None
    /\ extracted = NoExtracted
    /\ stamps = <<>>
    /\ roman_call = NoNumeral
    /\ search_call = NoSearch
    /\ download_call = NoDownload
    /\ NoWriters

NextCreate ==
    \/ CreateClient
    \/ Tick

SpecCreate == InitCreate /\ [][NextCreate]_vars

(***************************************************************************)
(* The remaining parts of the program, each on its own: none of the        *)
(* variables of the pipeline and of the cached client is in use.           *)
(***************************************************************************)
Quiet ==
    /\ torrents = <<>>
    /\ input = torrents
    /\ anime_name = "Hint"
    /\ results = <<>>
    /\ calls = <<>>
    /\ returned = None
    /\ writes = NoWrites
    /\ metadata_file = MissingFile
    /\ html_cache = EmptyCache
    /\ now = ClockStart
    /\ client = None
    /\ log = <<>>
    /\ detail_arg = None
    /\ extracted = NoExtracted
    /\ stamps = <<>>

pipeline_vars ==
    <<torrents, input, anime_name, results, calls, returned, writes,
      metadata_file, html_cache, now, client, log, detail_arg, extracted,
      stamps>>

(***************************************************************************)
(* _parse_roman_numeral on every string of up to MaxNumeral of the letters *)
(* I, V, X in either case.                                                 *)
(***************************************************************************)
MaxNumeral == 3

RomanLetters == {"I", "V", "X", "i", "v", "x"}

RECURSIVE RomanStrings(_)
RomanStrings(n) ==
    IF n = 0 THEN {""}
    ELSE LET shorter == RomanStrings(n - 1)
         IN  shorter \cup {s \o c : s \in shorter, c \in RomanLetters}

InitRoman ==
    /\ Quiet
    /\ \E numeral \in RomanStrings(MaxNumeral) :
          roman_call = [numeral |-> numeral, result |-> None]
    /\ search_call = NoSearch
    /\ download_call = NoDownload
    /\ NoWriters

\* a call _parse_roman_numeral(numeral)
ParseRomanNumeral ==
    /\ roman_call.result = None
    /\ roman_call' = [roman_call EXCEPT
                         !.result = Some(_parse_roman_numeral(
                                             roman_call.numeral))]
    /\ UNCHANGED <<pipeline_vars, search_call, download_call, cache_dir,
                   writers, seen>>

NextRoman == ParseRomanNumeral

SpecRoman == InitRoman /\ [][NextRoman]_vars

(***************************************************************************)
(* scraper.py: search_nyaa.                                                *)
(*                                                                         *)
(* A result page is its text; SearchSoup gives what BeautifulSoup finds in *)
(* it: whether there is a table of class torrent-list, whether the table   *)
(* has a tbody, and the rows of the tbody.  A row is the number of its td  *)
(* cells and, if its second cell links to /view/<id>, the name and the id  *)
(* of that link.                                                           *)
(***************************************************************************)
CATEGORIES ==
    [all |-> "0_0", anime |-> "1_0", anime_amv |-> "1_1",
     anime_english |-> "1_2", anime_non_english |-> "1_3",
     anime_raw |-> "1_4"]

FILTERS == [no_filter |-> "0", no_remakes |-> "1", trusted |-> "2"]

\* urllib.parse.quote_plus of one character, for the characters of the
\* search queries: letters and digits stay, a blank becomes "+", brackets
\* are percent-encoded
quote_char(c) ==
    CASE c = " " -> "+"
      [] c = "(" -> "%28"
      [] c = ")" -> "%29"
      [] OTHER -> c

RECURSIVE quote_plus(_)
quote_plus(s) ==
    IF s = "" THEN ""
    ELSE quote_char(CharAt(s, 1)) \o quote_plus(SubSeq(s, 2, Len(s)))

\* lines 33-50
build_search_url(query, category, filter_type, page) ==
    BASE_URL \o "/?f=" \o Get(FILTERS, filter_type, "0")
        \o "&c=" \o Get(CATEGORIES, category, "1_2")
        \o "&q=" \o quote_plus(query)
        \o "&s=seeders&o=desc&p=" \o IntToStr(page)

BadRow == [cols |-> 3, name_data |-> None]
NoLinkRow == [cols |-> 8, name_data |-> None]
TorrentRow(id, name) ==
    [cols |-> 8, name_data |-> Some([name |-> name, id |-> id])]

SearchPages ==
    <<[text |-> "<p>No results</p>",
       table |-> FALSE, tbody |-> FALSE, rows |-> <<>>],
      [text |-> "<table class='torrent-list'></table>",
       table |-> TRUE, tbody |-> FALSE, rows |-> <<>>],
      [text |-> "<table class='torrent-list'><tbody></tbody></table>",
       table |-> TRUE, tbody |-> TRUE, rows |-> <<>>],
      [text |-> "<table class='torrent-list'><tbody><tr>-</tr><tr>+</tr>",
       table |-> TRUE, tbody |-> TRUE, rows |-> <<BadRow, NoLinkRow>>],
      [text |-> "<table class='torrent-list'><tbody><tr>1</tr>",
       table |-> TRUE, tbody |-> TRUE,
       rows |-> <<BadRow, TorrentRow(1, "[G] Show - 01")>>],
      [text |-> "<table class='torrent-list'><tbody><tr>2</tr><tr>3</tr>",
       table |-> TRUE, tbody |-> TRUE,
       rows |-> <<TorrentRow(2, "[G] Show - 02 (Dual Audio)"), NoLinkRow,
                  TorrentRow(3, "[G] Show - 03")>>]>>

SearchPageTexts == {SearchPages[k].text : k \in 1..Len(SearchPages)}

SearchSoup(text) ==
    SearchPages[CHOOSE k \in 1..Len(SearchPages) :
                    SearchPages[k].text = text]

\* lines 88-118: None for a row with fewer than 8 cells or without a
\* /view/ link in its second cell
parse_torrent_row(row) ==
    IF row.cols < 8 THEN None
    ELSE IF row.name_data = None THEN None
    ELSE Some([id |-> row.name_data.value.id,
               name |-> row.name_data.value.name,
               seeders |-> 0,
               submitter |-> "Anonymous",
               metadata |-> None])

\* lines 205-211
RECURSIVE page_torrents(_, _)
page_torrents(rows, dub_only) ==
    IF rows = <<>> THEN <<>>
    ELSE LET torrent == parse_torrent_row(Head(rows))
         IN  (IF torrent = None THEN <<>>
              ELSE IF dub_only /\ ~contains_dub_keywords(torrent.value.name)
              THEN <<>>
              ELSE <<torrent.value>>)
             \o page_torrents(Tail(rows), dub_only)

\* response.raise_for_status() raises
RaisesForStatus(response) ==
    response.status_code < 200 \/ response.status_code > 299

\* lines 184-214: the torrents a page adds to the list; <<>> stands for
\* every break of the loop
accepted_of(response, dub_only) ==
    IF response.raised THEN <<>>
    ELSE IF RaisesForStatus(response) THEN <<>>
    ELSE LET soup == SearchSoup(response.text)
         IN  IF ~soup.table THEN <<>>
             ELSE IF ~soup.tbody THEN <<>>
             ELSE page_torrents(soup.rows, dub_only)

\* the state of the loops of search_nyaa
Searching(found, cache, gets) ==
    [torrents |-> found, html_cache |-> cache, log |-> gets]

\* mutant: the loop goes on to the next page after a page without torrents
RECURSIVE search_all_pages(_, _, _, _, _, _, _)
search_all_pages(st, self, page, max_pages, search_query, dub_only, site) ==
    IF page > max_pages THEN st
    ELSE \* one turn of the loop, and the turns after it
         LET url == build_search_url(search_query, "anime_english",
                                     "no_filter", page)
             got == get(self, st.html_cache, url, site[page])
             found == accepted_of(got.response, dub_only)
         IN  search_all_pages(
                 Searching(st.torrents \o found, got.html_cache,
                           Append(st.log, GetEvent(url, got))),
                 self, page + 1, max_pages, search_query, dub_only, site)

\* lines 179-217: the loop from page on; site[page] is what the network
\* does with the request for the page if it is made
RECURSIVE search_pages(_, _, _, _, _, _, _)
after_page(st, self, page, max_pages, search_query, dub_only, site, url, got, found) ==
    IF found = <<>>
    THEN Searching(st.torrents, got.html_cache,
                   Append(st.log, GetEvent(url, got)))
    ELSE search_pages(Searching(st.torrents \o found, got.html_cache,
                                Append(st.log, GetEvent(url, got))),
                      self, page + 1, max_pages, search_query, dub_only,
                      site)

get_page(st, self, page, max_pages, search_query, dub_only, site, url, got) ==
    after_page(st, self, page, max_pages, search_query, dub_only, site, url,
               got, accepted_of(got.response, dub_only))

search_pages(st, self, page, max_pages, search_query, dub_only, site) ==
    IF page > max_pages THEN st
    ELSE get_page(st, self, page, max_pages, search_query, dub_only, site,
                  build_search_url(search_query, "anime_english",
                                   "no_filter", page),
                  get(self, st.html_cache,
                      build_search_url(search_query, "anime_english",
                                       "no_filter", page),
                      site[page]))

\* lines 121-137 behind client.get
get_submitter_for_torrent(response) ==
    IF response.raised THEN "Anonymous"
    ELSE IF RaisesForStatus(response) THEN "Anonymous"
    ELSE LET soup == BeautifulSoup(response.text)
         IN  IF soup.submitter # None THEN soup.submitter.value
             ELSE "Anonymous"

\* lines 221-226: the loop from torrent i on, every detail page being
\* answered with detail if the network is asked for it
RECURSIVE fetch_submitters_loop(_, _, _, _)
after_submitter(st, self, i, detail, url, got) ==
    fetch_submitters_loop(
        Searching([st.torrents EXCEPT ![i].submitter =
                       get_submitter_for_torrent(got.response)],
                  got.html_cache, Append(st.log, GetEvent(url, got))),
        self, i + 1, detail)

fetch_submitters_loop(st, self, i, detail) ==
    IF i > Len(st.torrents) THEN st
    ELSE after_submitter(st, self, i, detail, view_url(st.torrents[i].id),
                         get(self, st.html_cache,
                             view_url(st.torrents[i].id), detail))

\* lines 165-168
search_query_of(query, dub_only) ==
    IF dub_only
    THEN query \o " (" \o Join(" OR ", SubSeq(DUB_KEYWORDS, 1, 3)) \o ")"
    ELSE query

\* lines 170-229 after the client has been created: the pages, then the
\* submitters
searched(initialized, self, max_pages, search_query, dub_only, fetch_submitters, site, detail, st) ==
    [metadata_file |-> initialized.metadata_file,
     created |-> CreateEvent(self.current_query, initialized),
     final |-> IF fetch_submitters /\ st.torrents # <<>>
               THEN fetch_submitters_loop(st, self, 1, detail)
               ELSE st]

\* lines 140-229: the returned list, the files of the cache afterwards and
\* the calls made on the client
search_with(initialized, self, max_pages, search_query, dub_only, fetch_submitters, site, detail) ==
    searched(initialized, self, max_pages, search_query, dub_only,
             fetch_submitters, site, detail,
             search_pages(Searching(<<>>, initialized.html_cache, <<>>),
                          self, 1, max_pages, search_query, dub_only, site))

search_nyaa(query, max_pages, dub_only, fetch_submitters, file, cache, now_hour, site, detail) ==
    search_with(_initialize_cache(file, cache,
                                  Some(search_query_of(query, dub_only)),
                                  now_hour),
                [CachedHTTPClient(Some(search_query_of(query, dub_only)))
                    EXCEPT !.open = TRUE],
                max_pages, search_query_of(query, dub_only), dub_only,
                fetch_submitters, site, detail)

\* the inputs of search_nyaa: a site of up to MaxPages result pages, each of
\* which the network answers with an exception, an error status or one of
\* the pages; detail pages that cannot be reached or name a submitter; and
\* the disk an earlier search for "show" may have left
MaxPages == 3

SearchOutcomes ==
    {Raised("httpx.ConnectError"), Response(500, "")}
        \cup {Response(200, text) : text \in SearchPageTexts}

DetailOutcomes == {Raised("httpx.ConnectError"), Response(200, Pages[1].text)}

SearchArgs ==
    UNION {[query : {"show"}, max_pages : {max_pages},
            dub_only : BOOLEAN, fetch_submitters : BOOLEAN,
            site : [1..max_pages -> SearchOutcomes],
            detail : DetailOutcomes] : max_pages \in 0..MaxPages}

SearchDisks ==
    {[metadata_file |-> MissingFile, html_cache |-> EmptyCache],
     [metadata_file |-> JsonFile(Some("show"),
                                 Some(isoformat(ClockStart - 1))),
      html_cache |->
          [url \in {build_search_url("show", "anime_english", "no_filter",
                                     1)} |-> SearchPages[6].text]]}

InitSearch ==
    /\ torrents = <<>>
    /\ input = torrents
    /\ anime_name = "Hint"
    /\ results = <<>>
    /\ calls = <<>>
    /\ returned = None
    /\ writes = NoWrites
    /\ \E disk \in SearchDisks :
          /\ metadata_file = disk.metadata_file
          /\ html_cache = disk.html_cache
    /\ now = ClockStart
    /\ client = None
    /\ log = <<>>
    /\ detail_arg = None
    /\ extracted = NoExtracted
    /\ stamps = <<>>
    /\ roman_call = NoNumeral
    /\ \E args \in SearchArgs : search_call = [args |-> Some(args),
                                               result |-> None]
    /\ download_call = NoDownload
    /\ NoWriters

\* a call search_nyaa(query, max_pages=..., dub_only=...,
\* fetch_submitters=...)
SearchNyaa ==
    /\ search_call.args # None
    /\ search_call.result = None
    /\ \E out \in {search_nyaa(search_call.args.value.query,
                               search_call.args.value.max_pages,
                               search_call.args.value.dub_only,
                               search_call.args.value.fetch_submitters,
                               metadata_file, html_cache, now,
                               search_call.args.value.site,
                               search_call.args.value.detail)} :
          /\ search_call' = [search_call EXCEPT
                                !.result = Some(out.final.torrents)]
          /\ metadata_file' = out.metadata_file
          /\ html_cache' = out.final.html_cache
          /\ log' = log \o <<out.created>> \o out.final.log
          /\ stamps' = stamps \o [i \in 1..(1 + Len(out.final.log)) |-> now]
    /\ UNCHANGED <<torrents, input, anime_name, results, calls, returned,
                   writes, now, client, detail_arg, extracted, roman_call,
                   download_call, cache_dir, writers, seen>>

NextSearch == SearchNyaa

SpecSearch == InitSearch /\ [][NextSearch]_vars

(***************************************************************************)
(* downloader.py: download_group_torrents.                                 *)
(*                                                                         *)
(* A Torrent of this part is [id, name]; a path is a string; the download  *)
(* directory is the map from the paths of its files to their contents.     *)
(***************************************************************************)
\* utils.py lines 54-56: the loop over invalid_chars from character k on
RECURSIVE replace_invalid(_, _, _)
replace_invalid(name, invalid_chars, k) ==
    IF k > Len(invalid_chars) THEN name
    ELSE replace_invalid(Replace(name, CharAt(invalid_chars, k), "_"),
                         invalid_chars, k + 1)

\* utils.py lines 52-57
sanitize_filename(name, max_length) ==
    LET replaced == replace_invalid(name, "<>:\"/\\|?*", 1)
    IN  SubSeq(replaced, 1, IF Len(replaced) < max_length THEN Len(replaced)
                            ELSE max_length)

\* models.py lines 60-63
download_url(torrent) ==
    "https://nyaa.si/download/" \o IntToStr(torrent.id) \o ".torrent"

\* the state of the loop of download_group_torrents
Downloading(requests, files, downloaded_files) ==
    [requests |-> requests, files |-> files,
     downloaded_files |-> downloaded_files]

\* filepath.write_bytes(content)
write_bytes(files, filepath, content) ==
    [path \in DOMAIN files \cup {filepath} |->
        IF path = filepath THEN content ELSE files[path]]

\* mutant: the first failure ends the downloads
download_torrent_file_or_stop(st, torrent, download_dir, outcome) ==
    IF Len(st.requests) > Len(st.downloaded_files) THEN st
    ELSE IF outcome.network.raised \/ RaisesForStatus(outcome.network)
            \/ ~outcome.writable
    THEN Downloading(Append(st.requests, download_url(torrent)), st.files,
                     st.downloaded_files)
    ELSE Downloading(Append(st.requests, download_url(torrent)),
                     write_bytes(st.files,
                                 download_dir \o "/"
                                     \o sanitize_filename(torrent.name, 100)
                                     \o ".torrent",
                                 outcome.network.text),
                     Append(st.downloaded_files,
                            download_dir \o "/"
                                \o sanitize_filename(torrent.name, 100)
                                \o ".torrent"))

\* lines 47-69 and 116-118: st after the download of one torrent; outcome
\* is what the network does with the request and whether the file can be
\* written
download_torrent_file(st, torrent, download_dir, outcome) ==
    IF outcome.network.raised \/ RaisesForStatus(outcome.network)
    THEN Downloading(Append(st.requests, download_url(torrent)), st.files,
                     st.downloaded_files)
    ELSE IF ~outcome.writable
    THEN Downloading(Append(st.requests, download_url(torrent)), st.files,
                     st.downloaded_files)
    ELSE Downloading(Append(st.requests, download_url(torrent)),
                     write_bytes(st.files,
                                 download_dir \o "/"
                                     \o sanitize_filename(torrent.name, 100)
                                     \o ".torrent",
                                 outcome.network.text),
                     Append(st.downloaded_files,
                            download_dir \o "/"
                                \o sanitize_filename(torrent.name, 100)
                                \o ".torrent"))

\* lines 111-120: the loop from torrent i on
RECURSIVE download_loop(_, _, _, _, _)
download_loop(st, group_torrents, group_dir, outcomes, i) ==
    IF i > Len(group_torrents) THEN st
    ELSE download_loop(download_torrent_file(st, group_torrents[i],
                                             group_dir, outcomes[i]),
                       group_torrents, group_dir, outcomes, i + 1)

\* lines 72-127: DownloadError when a directory cannot be created, else the
\* list of the downloaded files
download_group_torrents(group, download_dir, creatable, outcomes) ==
    IF ~creatable
    THEN [raised |-> TRUE,
          final |-> Downloading(<<>>, NoFiles, <<>>)]
    ELSE [raised |-> FALSE,
          final |-> download_loop(
                        Downloading(<<>>, NoFiles, <<>>), group.torrents,
                        download_dir \o "/"
                            \o sanitize_filename(group.name, 100),
                        outcomes, 1)]

\* the inputs of download_group_torrents: groups of up to MaxGroup torrents
\* whose names may be equal or differ in characters no file name may hold;
\* each download cannot connect, gets an error status, or gets the file,
\* which can or cannot be written
MaxGroup == 2

DownloadNames == {"Show - 01", "Show: 02", "Show_ 02"}

DownloadGroups ==
    UNION {{[name |-> "G: Show",
             torrents |-> [i \in 1..n |-> [id |-> i, name |-> f[i]]]] :
            f \in [1..n -> DownloadNames]} : n \in 0..MaxGroup}

DownloadOutcomes(id) ==
    {[network |-> Raised("httpx.ConnectError"), writable |-> TRUE],
     [network |-> Response(500, ""), writable |-> TRUE],
     [network |-> Response(200, "torrent " \o IntToStr(id)),
      writable |-> TRUE],
     [network |-> Response(200, "torrent " \o IntToStr(id)),
      writable |-> FALSE]}

DownloadArgs ==
    UNION {{[group |-> group, download_dir |-> "/dl",
             creatable |-> creatable, outcomes |-> outcomes] :
            creatable \in BOOLEAN,
            outcomes \in {f \in [1..Len(group.torrents) ->
                                    UNION {DownloadOutcomes(i) :
                                              i \in 1..MaxGroup}] :
                             \A i \in 1..Len(group.torrents) :
                                 f[i] \in DownloadOutcomes(i)}} :
           group \in DownloadGroups}

InitDownload ==
    /\ Quiet
    /\ roman_call = NoNumeral
    /\ search_call = NoSearch
    /\ \E args \in DownloadArgs :
          download_call = [NoDownload EXCEPT !.args = Some(args)]
    /\ NoWriters

\* a call download_group_torrents(group, download_dir)
DownloadGroupTorrents ==
    /\ download_call.args # None
    /\ download_call.result = None
    /\ \E out \in {download_group_torrents(
                       download_call.args.value.group,
                       download_call.args.value.download_dir,
                       download_call.args.value.creatable,
                       download_call.args.value.outcomes)} :
          download_call' =
              [download_call EXCEPT
                  !.requests = out.final.requests,
                  !.files = out.final.files,
                  !.result = Some([raised |-> out.raised,
                                   paths |-> out.final.downloaded_files])]
    /\ UNCHANGED <<pipeline_vars, roman_call, search_call, cache_dir, writers,
                   seen>>

NextDownload == DownloadGroupTorrents

SpecDownload == InitDownload /\ [][NextDownload]_vars

(***************************************************************************)
(* cache.py: _write_to_cache and _read_from_cache of one URL, called by    *)
(* several clients at the same time, step by step.                         *)
(*                                                                         *)
(* cache_dir.inodes holds the contents of the files ever created, by       *)
(* inode; cache_dir.tmp and cache_dir.html are the inodes the names        *)
(* <hash>.tmp and <hash>.html refer to, 0 when there is no such name.      *)
(* A writer is at "open" (before temp_path.write_text opens the file),     *)
(* at "write" (the file is open, nothing written yet), at "rename"         *)
(* (write_text has returned) or "done"; fd is the inode it has open.       *)
(* The text is written by one write call and read by one read call.        *)
(***************************************************************************)
MaxWriters == 2

WriterTexts == {"ab", "cde"}

InitWriters ==
    /\ Quiet
    /\ roman_call = NoNumeral
    /\ search_call = NoSearch
    /\ download_call = NoDownload
    /\ cache_dir = EmptyDir
    /\ \E n \in 1..MaxWriters :
          writers \in [1..n -> {[pc |-> "open", content |-> text, fd |-> 0] :
                                   text \in WriterTexts}]
    /\ seen = {}

\* line 162, open(temp_path, "w"): the file is created, or truncated if the
\* name exists
WriteOpen ==
    /\ \E w \in 1..Len(writers) :
          /\ writers[w].pc = "open"
          /\ IF cache_dir.tmp # 0
             THEN /\ cache_dir' = [cache_dir EXCEPT !.inodes[cache_dir.tmp] = ""]
                  /\ writers' = [writers EXCEPT ![w].pc = "write",
                                                ![w].fd = cache_dir.tmp]
             ELSE /\ cache_dir' = [cache_dir EXCEPT
                                      !.inodes = Append(@, ""),
                                      !.tmp = Len(cache_dir.inodes) + 1]
                  /\ writers' = [writers EXCEPT
                                    ![w].pc = "write",
                                    ![w].fd = Len(cache_dir.inodes) + 1]
    /\ UNCHANGED <<pipeline_vars, call_vars, seen>>

\* line 162, write and close: the text goes to the open file from offset 0
WriteText ==
    /\ \E w \in 1..Len(writers) :
          /\ writers[w].pc = "write"
          /\ cache_dir' =
                 [cache_dir EXCEPT
                     !.inodes[writers[w].fd] =
                         write_text(writers[w].content)
                             \o SubSeq(@, Len(writers[w].content) + 1, Len(@))]
          /\ writers' = [writers EXCEPT ![w].pc = "rename"]
    /\ UNCHANGED <<pipeline_vars, call_vars, seen>>

\* lines 163-166, temp_path.rename(cache_path): FileNotFoundError, an
\* OSError, when the name is gone
WriteRename ==
    /\ \E w \in 1..Len(writers) :
          /\ writers[w].pc = "rename"
          /\ cache_dir' = IF cache_dir.tmp = 0 THEN cache_dir
                          ELSE [cache_dir EXCEPT !.html = cache_dir.tmp,
                                                 !.tmp = 0]
          /\ writers' = [writers EXCEPT ![w].pc = "done"]
    /\ UNCHANGED <<pipeline_vars, call_vars, seen>>

\* lines 143-153
ReadFromCache ==
    /\ seen' = seen \cup {IF cache_dir.html = 0 THEN None
                          ELSE Some(read_text(
                                        cache_dir.inodes[cache_dir.html]))}
    /\ UNCHANGED <<pipeline_vars, call_vars, cache_dir, writers>>

NextWriters ==
    \/ WriteOpen
    \/ WriteText
    \/ WriteRename
    \/ ReadFromCache

SpecWriters == InitWriters /\ [][NextWriters]_vars

(***************************************************************************)
(* Properties of group_torrents_deterministic.                             *)
(***************************************************************************)
Calls == 1..Len(results)
Members(g) == {g.torrents[k] : k \in 1..Len(g.torrents)}
SameKeyFields(m1, m2) ==
    /\ m1.release_group = m2.release_group
    /\ m1.anime_name = m2.anime_name
    /\ m1.season = m2.season
    /\ m1.audio_language = m2.audio_language
    /\ m1.subtitle_language = m2.subtitle_language
    /\ m1.quality = m2.quality

\* C1: the groups of every call partition the input list: each torrent is
\* in exactly one group, exactly once; no group is empty or holds a torrent
\* that is not of the input; two torrents share a group exactly when their
\* group keys are equal.
C1_GroupsPartitionInput ==
    \A c \in Calls :
        LET r == results[c]
        IN  /\ \A i \in 1..Len(input) :
                  Cardinality({<<g, k>> \in (1..Len(r)) \X (1..Len(input)) :
                      k <= Len(r[g].torrents) /\ r[g].torrents[k] = i}) = 1
            /\ \A g \in 1..Len(r) :
                  /\ r[g].torrents # <<>>
                  /\ Members(r[g]) \subseteq 1..Len(input)
                  /\ Len(r[g].torrents) <= Len(input)
            /\ \A i, j \in 1..Len(input) :
                  (\E g \in 1..Len(r) : {i, j} \subseteq Members(r[g]))
                    <=> (group_key(torrents[i].metadata)
                           = group_key(torrents[j].metadata))

\* three torrents in two groups, one torrent having come without metadata
C1_Witness ==
    /\ results # <<>>
    /\ Len(input) = 3
    /\ Len(results[1]) = 2
    /\ \E i \in 1..Len(input) : input[i].metadata = None

\* C2: the members of one group agree on each of the six key fields.
C2_GroupMembersAgreeOnFields ==
    \A c \in Calls : \A g \in 1..Len(results[c]) :
        \A i, j \in Members(results[c][g]) :
            SameKeyFields(torrents[i].metadata, torrents[j].metadata)

\* C3: the groups come by total seeders, non-increasing, and groups of
\* equal total in the order of their first members in the input list.
C3_SortedBySeedersStable ==
    \A c \in Calls :
        LET r == results[c]
        IN  \A g1, g2 \in 1..Len(r) :
                g1 < g2 =>
                    /\ total_seeders(r[g1], torrents)
                         >= total_seeders(r[g2], torrents)
                    /\ total_seeders(r[g1], torrents)
                         = total_seeders(r[g2], torrents)
                       => MinSeq(r[g1].torrents) < MinSeq(r[g2].torrents)

\* three groups: two of equal total, and one the sort has moved forward
C3_Witness ==
    /\ results # <<>>
    /\ LET r == results[1]
       IN  /\ Len(r) = 3
           /\ \E g1, g2 \in 1..3 :
                 /\ g1 < g2
                 /\ total_seeders(r[g1], torrents)
                      = total_seeders(r[g2], torrents)
           /\ \E g1, g2 \in 1..3 :
                 /\ g1 < g2
                 /\ MinSeq(r[g1].torrents) > MinSeq(r[g2].torrents)

\* C5: every call on the same list with the same fallback name returns the
\* same groups: names, members and their order, order of the groups.
C5_RepeatedCallSameGroups ==
    \A c1, c2 \in Calls : results[c1] = results[c2]

\* a second call, after the first one attached fallback metadata
C5_Witness ==
    /\ Len(results) >= 2
    /\ Len(results[2]) >= 2
    /\ \E i \in 1..Len(input) : input[i].metadata = None

\* C8: after a call every torrent has metadata: the fallback (the given
\* name, defaults elsewhere) where it had none, its own otherwise; no other
\* field of a torrent has changed.
C8_FallbackMetadataFrame ==
    results # <<>> =>
        /\ Len(torrents) = Len(input)
        /\ \A i \in 1..Len(input) :
              /\ torrents[i].id = input[i].id
              /\ torrents[i].name = input[i].name
              /\ torrents[i].seeders = input[i].seeders
              /\ torrents[i].metadata # None
              /\ input[i].metadata # None
                    => torrents[i].metadata = input[i].metadata
              /\ input[i].metadata = None
                    => torrents[i].metadata =
                          [anime_name |-> anime_name, season |-> "Season 1",
                           episode |-> "", quality |-> "Unknown",
                           audio_language |-> "Unknown",
                           subtitle_language |-> "Unknown",
                           release_group |-> "Unknown", description |-> ""]

\* a call on a list that mixes torrents with and without metadata
C8_Witness ==
    /\ results # <<>>
    /\ \E i, j \in 1..Len(input) :
          /\ input[i].metadata = None
          /\ input[j].metadata # None
          /\ torrents[i].metadata.anime_name = "d"

\* C10: inside each group the members keep the order of the input list.
C10_MembersInInputOrder ==
    \A c \in Calls : \A g \in 1..Len(results[c]) :
        LET m == results[c][g].torrents
        IN  \A k1, k2 \in 1..Len(m) : k1 < k2 => m[k1] < m[k2]

\* a group of three members
C10_Witness ==
    /\ results # <<>>
    /\ \E g \in 1..Len(results[1]) : Len(results[1][g].torrents) = 3

\* the key fields in which two metadata records differ
DifferingFields(m1, m2) ==
    {f \in {"release_group", "anime_name", "season", "audio_language",
            "subtitle_language", "quality"} : m1[f] # m2[f]}

\* C4: two torrents whose metadata differ in exactly one of the six key
\* fields have different group keys and are placed in two different groups.
C4_OneFieldChangesGroup ==
    \A c \in Calls : \A i, j \in 1..Len(input) :
        Cardinality(DifferingFields(input[i].metadata, input[j].metadata)) = 1
          => /\ group_key(torrents[i].metadata) # group_key(torrents[j].metadata)
             /\ \A g \in 1..Len(results[c]) :
                   ~({i, j} \subseteq Members(results[c][g]))

\* two grouped torrents that differ in the quality alone, with a pipe
\* character in the release group
C4_Witness ==
    /\ results # <<>>
    /\ Len(input) = 2
    /\ DifferingFields(input[1].metadata, input[2].metadata) = {"quality"}
    /\ input[1].metadata.release_group = "a|b"
    /\ Len(results[1]) = 2

\* the episode numbers of the episode fields in Episodes, with their
\* decimal notation
EpisodeNumbers ==
    {<<"Episode 1", 1, "1">>, <<"Episode 3", 3, "3">>,
     <<"Episode 12", 12, "12">>, <<"07", 7, "7">>}

\* the <<number, notation>> of the members of g whose episode has a number,
\* one per such member
NumberedMembers(g) ==
    {<<p[1], p[2][2], p[2][3]>> : p \in
        {q \in Members(g) \X EpisodeNumbers :
            torrents[q[1]].metadata.episode = q[2][1]}}

\* C6: a group's episode_range is "Various" exactly when no member has an
\* episode that parses to an integer; with one such member it is
\* "Episode n", with several "Episodes min-max" of the parsed numbers,
\* whatever the order of the members.
C6_EpisodeRangeMinMax ==
    \A c \in Calls : \A g \in 1..Len(results[c]) :
        LET grp == results[c][g]
            nm == NumberedMembers(grp)
        IN  /\ grp.episode_range = "Various" <=> nm = {}
            /\ nm # {} =>
                 LET lo == CHOOSE x \in nm : \A y \in nm : x[2] <= y[2]
                     hi == CHOOSE x \in nm : \A y \in nm : x[2] >= y[2]
                 IN  grp.episode_range =
                        IF Cardinality(nm) = 1
                        THEN "Episode " \o lo[3]
                        ELSE "Episodes " \o lo[3] \o "-" \o hi[3]

\* a group of three that holds episodes 12, 3 and an unparsable one, the
\* larger number first
C6_Witness ==
    /\ results # <<>>
    /\ \E g \in 1..Len(results[1]) :
          /\ results[1][g].torrents = <<1, 2, 3>>
          /\ torrents[1].metadata.episode = "Episode 12"
          /\ torrents[2].metadata.episode = "Batch"
          /\ torrents[3].metadata.episode = "Episode 3"
          /\ results[1][g].episode_range = "Episodes 3-12"

\* C7: when the set of episode numbers parsed from a group's members is
\* {n}, the group's episode_range is "Episode n", however many members
\* carry episode n.
C7_SingleEpisodeNumber ==
    \A c \in Calls : \A g \in 1..Len(results[c]) :
        LET nm == NumberedMembers(results[c][g])
        IN  Cardinality({x[2] : x \in nm}) = 1
              => \E x \in nm : results[c][g].episode_range = "Episode " \o x[3]

\* the torrent names of DubChoices that contain a dub keyword, and the
\* audio languages of DubMetadata that are "English" in some case
DubbedNames == {"c [Dual Audio]", "c DUBBED"}
EnglishAudio == {"English", "eNgLiSh"}

\* C9: a group's is_dubbed is true exactly when the first member's audio
\* language is "English" in any case or some member's name contains a dub
\* keyword in any case.
C9_IsDubbed ==
    \A c \in Calls : \A g \in 1..Len(results[c]) :
        LET grp == results[c][g]
        IN  grp.is_dubbed <=>
              \/ torrents[grp.torrents[1]].metadata.audio_language
                   \in EnglishAudio
              \/ \E i \in Members(grp) : torrents[i].name \in DubbedNames

\* a Japanese group found dubbed by the upper-case name of its member, and
\* a group that is not dubbed: its first member is not English, its second is
C9_Witness ==
    /\ results # <<>>
    /\ \E g \in 1..Len(results[1]) :
          LET grp == results[1][g]
          IN  /\ grp.is_dubbed
              /\ torrents[grp.torrents[1]].metadata.audio_language = "Japanese"
              /\ torrents[grp.torrents[1]].name = "c DUBBED"
    /\ \E g \in 1..Len(results[1]) :
          LET grp == results[1][g]
          IN  /\ ~grp.is_dubbed
              /\ Len(grp.torrents) = 2
              /\ torrents[grp.torrents[1]].metadata.audio_language = "eNgLiSh|x"
              /\ torrents[grp.torrents[2]].metadata.audio_language = "eNgLiSh"

(***************************************************************************)
(* Properties of the pipeline (fetch_metadata_for_torrents and             *)
(* group_torrents_with_metadata).                                          *)
(***************************************************************************)
\* a fetch step has run over a non-empty list
FetchRan ==
    /\ calls # <<>>
    /\ calls[1] \in {"fetch_metadata_for_torrents",
                     "group_torrents_with_metadata"}
    /\ input # <<>>

\* the client.get call made for torrent i (the log starts with the creation
\* of the client)
GetOf(i) == log[i + 1]
Failed(i) ==
    GetOf(i).response.raised \/ GetOf(i).response.status_code # 200

\* what the torrent names of the pipeline yield when read on their own
ExpectedFallback(name) ==
    CASE name = "[G] Show - 05" ->
            Metadata("G", "Show", "Season 1", "Unknown", "Unknown", "Unknown",
                     "Episode 5")
      [] name = "[G] S01" ->
            Metadata("G", "Unknown", "Season 1", "Unknown", "Unknown",
                     "Unknown", "")

\* the anime name that can be extracted from a torrent name, None if none
ExtractableName(name) ==
    CASE name = "[G] Show - 05" -> Some("Show")
      [] name = "[G] S01" -> None

\* C11: after fetch_metadata_for_torrents every torrent has metadata,
\* whatever mix of fetches succeeded and failed; a torrent whose fetch
\* failed has the metadata read from its own name, with audio and subtitle
\* language "Unknown"; the returned list is the input list, the same
\* torrents in the same order.
C11_EveryTorrentGetsMetadata ==
    /\ Len(torrents) = Len(input)
    /\ \A i \in 1..Len(torrents) :
          /\ torrents[i].id = input[i].id
          /\ torrents[i].name = input[i].name
          /\ torrents[i].seeders = input[i].seeders
    /\ returned # None => returned.value = torrents
    /\ FetchRan =>
          \A i \in 1..Len(torrents) :
             /\ torrents[i].metadata # None
             /\ Failed(i) =>
                   torrents[i].metadata = ExpectedFallback(input[i].name)

C11_Witness ==
    /\ FetchRan
    /\ returned # None
    /\ Len(torrents) = 2
    /\ Failed(1)
    /\ ~Failed(2)
    /\ torrents[1].metadata.audio_language = "Unknown"
    /\ torrents[2].metadata # None

\* C12: when the fetch of a torrent failed and no anime name can be
\* extracted from the torrent's own name, the anime_name the grouping step
\* sees is the anime-name hint; when a name can be extracted, it is the
\* extracted name.
C12_HintWhenNoNameExtractable ==
    (FetchRan /\ calls[1] = "group_torrents_with_metadata") =>
        \A i \in 1..Len(torrents) :
           Failed(i) =>
              torrents[i].metadata.anime_name =
                 IF ExtractableName(input[i].name) = None
                 THEN anime_name
                 ELSE ExtractableName(input[i].name).value

\* the page lacks one of the elements a detail page is expected to have
Lacking(text) ==
    LET soup == BeautifulSoup(text)
    IN  \/ soup.title = None
        \/ soup.description = None
        \/ soup.category = None
        \/ soup.submitter = None

\* C13: a detail record that lacks some of the expected attributes yields
\* exactly the metadata a failed fetch yields: the fallback read from the
\* torrent's own name, with both languages "Unknown".
C13_LackingDetailIsFallback ==
    FetchRan =>
        \A i \in 1..Len(torrents) :
           (~Failed(i) /\ Lacking(GetOf(i).response.text)) =>
              torrents[i].metadata = ExpectedFallback(input[i].name)

\* C14: during one run of group_torrents_with_metadata on torrents that
\* start without metadata, the metadata of each torrent is assigned exactly
\* once, by the fetch step; the grouping step replaces none, and no later
\* step replaces metadata that is present.
C14_MetadataAssignedOnce ==
    /\ []((calls # <<>> /\ calls[1] = "group_torrents_with_metadata") =>
            /\ Len(writes.fetch) = Len(torrents)
            /\ Len(writes.group) = Len(torrents)
            /\ \A i \in 1..Len(torrents) :
                  /\ writes.fetch[i] = 1
                  /\ writes.group[i] = 0
                  /\ torrents[i].metadata # None)
    /\ [][\A i \in 1..Len(torrents) :
             torrents[i].metadata # None =>
                torrents'[i].metadata = torrents[i].metadata]_vars

C14_Witness ==
    /\ Len(calls) = 2
    /\ calls[1] = "group_torrents_with_metadata"
    /\ Len(torrents) = 2
    /\ \A i \in 1..2 : input[i].metadata = None
    /\ Failed(1)
    /\ ~Failed(2)
    /\ writes.fetch = <<1, 1>>

\* C18: for an empty input group_torrents_deterministic and
\* group_torrents_with_metadata return an empty list; no cache client is
\* created and no page is fetched, and the disk cache stays as it is.
C18_EmptyInputEmptyResult ==
    input = <<>> =>
        /\ \A k \in 1..Len(results) : results[k] = <<>>
        /\ torrents = <<>>
        /\ log = <<>>
        /\ \E disk \in Disks :
              /\ metadata_file = disk.metadata_file
              /\ html_cache = disk.html_cache

C18_Witness ==
    /\ input = <<>>
    /\ calls = <<"group_torrents_with_metadata",
                 "group_torrents_deterministic">>
    /\ results = <<<<>>, <<>>>>
    /\ metadata_file # MissingFile
    /\ html_cache # EmptyCache

(***************************************************************************)
(* Properties of the extractors.                                           *)
(***************************************************************************)
\* the release group each title of the model names, "Unknown" if none
TitleReleaseGroup(title) ==
    CASE title = "[G] Show S02 - 05 [720p]" -> "G"
      [] title = "Show-GRP" -> "GRP"
      [] title = "(Grp) Show Cour 2 S3" -> "Grp"
      [] OTHER -> "Unknown"

\* the dict names a submitter other than the sentinel
NamesSubmitter(detail) ==
    /\ "submitter" \in DOMAIN detail
    /\ detail.submitter \notin {"", "Anonymous"}

\* C15: extract_metadata_from_detail sets release_group to the submitter
\* whenever the submitter is non-empty and not "Anonymous", whatever the
\* title contains, and otherwise to the release group extracted from the
\* title, "Unknown" when the title has none.
C15_SubmitterOverridesReleaseGroup ==
    extracted.metadata # None =>
        extracted.metadata.value.release_group =
            IF NamesSubmitter(detail_arg.value)
            THEN detail_arg.value.submitter
            ELSE TitleReleaseGroup(detail_arg.value.title)

\* the submitter has overridden the release group a title names
C15_Witness ==
    /\ detail_arg # None
    /\ detail_arg.value.title = "[G] Show S02 - 05 [720p]"
    /\ NamesSubmitter(detail_arg.value)
    /\ extracted.metadata # None
    /\ extracted.metadata.value.release_group = "Bob"

NoSeason == <<"", "", "", "", "", "">>

\* what each of the six strategies finds in the texts of the model, in the
\* order S<digits> or Season <digits>, ordinal numeral, ordinal word, Roman
\* numeral, Part, Cour; "" where the strategy does not match
StrategySeasons(text) ==
    CASE text = "[G] Show S02 - 05 [720p]" ->
            [NoSeason EXCEPT ![1] = "Season 2"]
      [] text = "Show 3rd Season Part 2" ->
            [NoSeason EXCEPT ![2] = "Season 3", ![5] = "Season 2"]
      [] text = "Show Third Season IV" ->
            [NoSeason EXCEPT ![3] = "Season 3", ![4] = "Season 4"]
      [] text = "Show Season II Part 3" ->
            [NoSeason EXCEPT ![4] = "Season 2", ![5] = "Season 3"]
      [] text = "Show Part 2 Cour 3" ->
            [NoSeason EXCEPT ![5] = "Season 2", ![6] = "Season 3"]
      [] text = "Show Cour 4" -> [NoSeason EXCEPT ![6] = "Season 4"]
      [] text = "(Grp) Show Cour 2 S3" ->
            [NoSeason EXCEPT ![1] = "Season 3", ![6] = "Season 2"]
      [] text = "Show S2 3rd Season" ->
            [NoSeason EXCEPT ![1] = "Season 2", ![2] = "Season 3"]
      [] text = "Show 2nd Season Third Season" ->
            [NoSeason EXCEPT ![2] = "Season 2", ![3] = "Season 3"]
      [] text = "Season 5" -> [NoSeason EXCEPT ![1] = "Season 5"]
      [] text = "Part 6" -> [NoSeason EXCEPT ![5] = "Season 6"]
      [] OTHER -> NoSeason

\* the find of the first strategy that matches, "" if none does
FirstStrategy(finds) ==
    IF \A k \in 1..Len(finds) : finds[k] = "" THEN ""
    ELSE finds[CHOOSE k \in 1..Len(finds) :
                  finds[k] # "" /\ \A j \in 1..(k - 1) : finds[j] = ""]

TextOf(detail, key) == IF key \in DOMAIN detail THEN detail[key] ELSE ""

\* C16: extract_season returns the season of the first strategy that
\* matches, in the order S<digits> or Season <digits>, ordinal numeral +
\* Season, ordinal word + Season, Roman numeral after Season, Part <digits>,
\* Cour <digits>; all six are tried on the title before any is tried on the
\* description, and the result is "Season 1" when none matches in either.
C16_SeasonStrategyPriority ==
    extracted.season # None =>
        extracted.season.value =
            IF StrategySeasons(TextOf(detail_arg.value, "title")) # NoSeason
            THEN FirstStrategy(
                     StrategySeasons(TextOf(detail_arg.value, "title")))
            ELSE IF StrategySeasons(TextOf(detail_arg.value, "description"))
                        # NoSeason
            THEN FirstStrategy(
                     StrategySeasons(TextOf(detail_arg.value, "description")))
            ELSE "Season 1"

\* the last strategy has matched in the title and the first one in the
\* description: the title has won
C16_Witness ==
    /\ detail_arg # None
    /\ TextOf(detail_arg.value, "title") = "Show Cour 4"
    /\ TextOf(detail_arg.value, "description") = "Season 5"
    /\ extracted.season = Some("Season 4")

\* C17: extract_anime_name applied to its own output gives the same
\* string again.
C17_AnimeNameIdempotent ==
    Len(extracted.names) >= 2 => extracted.names[2] = extracted.names[1]

(***************************************************************************)
(* Properties of the cached client.                                        *)
(***************************************************************************)
\* the hour each ISO timestamp of the model stands for
StampHour(stamp) ==
    CASE stamp = "23" -> 23 [] stamp = "24" -> 24 [] stamp = "25" -> 25
      [] stamp = "48" -> 48 [] stamp = "61" -> 61 [] stamp = "74" -> 74
      [] stamp = "87" -> 87 [] stamp = "100" -> 100

IsoStamps == {"23", "24", "25", "48", "61", "74", "87", "100"}

\* the query the metadata file records, None if it records none
RecordedQuery(file) == IF file.state = "json" THEN file.query ELSE None

\* the recorded timestamp is missing, unparsable or older than 24 hours
Stale(file, now_hour) ==
    \/ file.state # "json"
    \/ file.timestamp = None
    \/ file.timestamp.value \notin IsoStamps
    \/ now_hour - StampHour(file.timestamp.value) > 24

\* the step creates a client
Creates == Len(log') = Len(log) + 1 /\ log'[Len(log')].op = "create"

\* C19: creating a CachedHTTPClient clears all cached pages and rewrites
\* the recorded query and timestamp if and only if current_query is not
\* None and differs from the recorded query, or the recorded timestamp is
\* missing, unparsable or older than 24 hours; in every other case the
\* cached pages and the recorded query and timestamp stay as they are.
C19_InvalidatedIffChangedOrStale ==
    [][Creates =>
          IF \/ /\ client'.value.current_query # None
                /\ client'.value.current_query # RecordedQuery(metadata_file)
             \/ Stale(metadata_file, now)
          THEN /\ html_cache' = EmptyCache
               /\ metadata_file'.state = "json"
               /\ metadata_file'.query = client'.value.current_query
               /\ metadata_file'.timestamp # None
               /\ metadata_file'.timestamp.value \in IsoStamps
               /\ StampHour(metadata_file'.timestamp.value) = now
          ELSE /\ html_cache' = html_cache
               /\ metadata_file' = metadata_file]_vars

\* a client was created for the recorded query when the timestamp was
\* exactly 24 hours old: the cached page and the file are still there
C19_Witness ==
    /\ now = ClockStart
    /\ log = <<[op |-> "create", current_query |-> Some("a"),
                invalidated |-> FALSE]>>
    /\ metadata_file = JsonFile(Some("a"), Some("24"))
    /\ html_cache # EmptyCache

\* a client that may have been invalidating was created between the get
\* calls i and j
InvalidatedBetween(i, j) ==
    \E k \in (i + 1)..(j - 1) : log[k].op = "create" /\ log[k].invalidated

\* the get call i was answered by the network with status 200
Fetched(i) ==
    /\ log[i].op = "get"
    /\ log[i].requested
    /\ ~log[i].response.raised
    /\ log[i].response.status_code = 200

\* C20: after get(url) on an open client has received a 200 response from
\* the network, every later get(url) for the same URL, by that client or by
\* a later client whose creation does not invalidate the cache, returns the
\* same text with status 200 and makes no network request.
C20_CachedPageServedAgain ==
    \A i \in 1..Len(log), j \in 1..Len(log) :
        /\ i < j
        /\ Fetched(i)
        /\ log[j].op = "get"
        /\ log[j].url = log[i].url
        /\ log[j].response.error # "RuntimeError"
        /\ ~InvalidatedBetween(i, j)
        => /\ ~log[j].requested
           /\ log[j].response = Response(200, log[i].response.text)

\* the get call i reached the client's cache and network code
Served(i) == log[i].op = "get" /\ log[i].response.error # "RuntimeError"

\* the get call i was answered by the network with a status other than 200
Refused(i) ==
    /\ log[i].op = "get"
    /\ log[i].requested
    /\ ~log[i].response.raised
    /\ log[i].response.status_code # 200

\* the get call j is the next one after i for the URL of i
NextGet(i, j) ==
    /\ i < j
    /\ Served(j)
    /\ log[j].url = log[i].url
    /\ \A k \in (i + 1)..(j - 1) : ~(Served(k) /\ log[k].url = log[i].url)

\* C21: a response is written to the cache only when its status code is
\* 200: after get(url) has returned a non-200 response there is no cache
\* entry for url, and the next get(url) goes to the network again.
C21_OnlyStatus200Cached ==
    /\ log # <<>> /\ Refused(Len(log))
          => log[Len(log)].url \notin DOMAIN html_cache
    /\ \A i \in 1..Len(log), j \in 1..Len(log) :
          Refused(i) /\ NextGet(i, j) => log[j].requested

\* a 404 for a URL, then the next get of the URL asks the network again
C21_Witness ==
    /\ Len(log) = 3
    /\ Refused(2)
    /\ log[2].response.status_code = 404
    /\ NextGet(2, 3)
    /\ log[3].requested
    /\ log[3].response = Response(200, "<p>a</p>")

\* the get call j was answered from the cache
FromCache(j) ==
    /\ log[j].op = "get"
    /\ ~log[j].requested
    /\ ~log[j].response.raised

\* the get call i wrote the page that is in the cache for its URL at entry
\* j of the log, unless a creation has cleared the cache in between
WroteFor(i, j) ==
    /\ i < j
    /\ Fetched(i)
    /\ \A n \in (i + 1)..(j - 1) : ~(Fetched(n) /\ log[n].url = log[i].url)

\* the client that makes the get call j was created at entry k of the log
CreatedFor(k, j) ==
    /\ k < j
    /\ log[k].op = "create"
    /\ \A n \in (k + 1)..(j - 1) : log[n].op # "create"

\* C22: cache entries expire after 24 hours: a cached page is never
\* returned by a client that was created more than 24 hours after the page
\* was written to the cache.
C22_NoPageOlderThanTTLServed ==
    \A j \in 1..Len(log) :
        FromCache(j) =>
            \E i \in 1..Len(log), k \in 1..Len(log) :
                /\ WroteFor(i, j)
                /\ log[i].url = log[j].url
                /\ CreatedFor(k, j)
                /\ ~(stamps[k] > stamps[i] + 24)

\* a page is fetched, a client is created 26 hours later and asks for the
\* URL of the page: the network is asked
C22_Witness ==
    /\ Len(log) = 4
    /\ Fetched(2)
    /\ CreatedFor(3, 4)
    /\ log[3].current_query = None
    /\ stamps[3] = stamps[2] + 26
    /\ Served(4)
    /\ log[4].url = log[2].url
    /\ log[4].requested

\* the step is a call of get on the client
Gets == Len(log') = Len(log) + 1 /\ log'[Len(log')].op = "get"

\* C23: get() on a CachedHTTPClient that is not inside its context (before
\* __enter__, or after __exit__) raises RuntimeError and neither reads nor
\* writes the cache nor makes a network request; get() succeeds only
\* between __enter__ and __exit__.
C23_GetOnlyInsideContext ==
    [][Gets =>
          IF client.value.open
          THEN log'[Len(log')].response.error # "RuntimeError"
          ELSE /\ log'[Len(log')].response = Raised("RuntimeError")
               /\ ~log'[Len(log')].cache_read
               /\ ~log'[Len(log')].requested
               /\ html_cache' = html_cache]_vars

\* a page was cached inside the context; after __exit__ a get of the same
\* URL has raised RuntimeError, the cached page notwithstanding
C23_Witness ==
    /\ Len(log) = 3
    /\ Fetched(2)
    /\ log[3].op = "get"
    /\ log[3].url = log[2].url
    /\ log[3].response = Raised("RuntimeError")
    /\ log[3].url \in DOMAIN html_cache
    /\ client # None
    /\ ~client.value.open

\* C28: creating a CachedHTTPClient with current_query=None never changes
\* the query recorded in the cache metadata, so a client created afterwards
\* with the previously recorded query does not clear the cache because of a
\* query change.
C28_NoneQueryKeepsRecordedQuery ==
    [][Creates /\ client'.value.current_query = None
          => RecordedQuery(metadata_file') = RecordedQuery(metadata_file)]_vars

\* every client created between the entries i and j of the log has the
\* query of the client that made the get call i, or no query
SameQueryBetween(i, j) ==
    \E c \in 1..Len(log) :
        /\ CreatedFor(c, i)
        /\ \A n \in (i + 1)..(j - 1) :
              log[n].op = "create"
                => log[n].current_query \in {None, log[c].current_query}

\* C29: a page written to the cache at time T is still returned from the
\* cache to every client created before T + 24 hours with the same query or
\* with current_query=None, provided no client with a different query was
\* created in between.
C29_PageServedForTTL ==
    \A i \in 1..Len(log), j \in 1..Len(log), k \in 1..Len(log) :
        /\ WroteFor(i, j)
        /\ i < k
        /\ CreatedFor(k, j)
        /\ stamps[k] < stamps[i] + 24
        /\ SameQueryBetween(i, j)
        /\ Served(j)
        /\ log[j].url = log[i].url
        => FromCache(j)

(***************************************************************************)
(* Properties of _parse_roman_numeral.                                     *)
(***************************************************************************)
\* the standard numerals of I, V and X with their values: up to three X,
\* then one of the nine unit forms or nothing
StandardUnits == <<"I", "II", "III", "IV", "V", "VI", "VII", "VIII", "IX">>
StandardTens == <<"X", "XX", "XXX">>
StandardNumerals ==
    {[numeral |-> StandardUnits[u], value |-> u] : u \in 1..9}
    \cup {[numeral |-> StandardTens[t], value |-> 10 * t] : t \in 1..3}
    \cup {[numeral |-> StandardTens[t] \o StandardUnits[u],
           value |-> 10 * t + u] : t \in 1..3, u \in 1..9}

\* the string in upper case
RECURSIVE UpperCase(_)
UpperCase(s) ==
    IF s = "" THEN ""
    ELSE UpperChar(CharAt(s, 1)) \o UpperCase(SubSeq(s, 2, Len(s)))

\* C25: for every string over the letters I, V, X (in either case),
\* _parse_roman_numeral returns the standard value of the numeral when the
\* string is a valid Roman numeral, and returns 1 when the string is empty
\* or is not a valid Roman numeral.
C25_RomanValueOrOne ==
    roman_call.result # None =>
        LET standard == {n \in StandardNumerals :
                            n.numeral = UpperCase(roman_call.numeral)}
        IN  IF standard = {} THEN roman_call.result.value = 1
            ELSE \A n \in standard : roman_call.result.value = n.value

(***************************************************************************)
(* Properties of search_nyaa.                                              *)
(***************************************************************************)
\* the URL of result page p of the search for "show", with and without the
\* dub filter
ResultPageUrl(dub_only, p) ==
    "https://nyaa.si/?f=0&c=1_2&q="
        \o (IF dub_only THEN "show+%28dub+OR+dubbed+OR+dual+audio%29"
            ELSE "show")
        \o "&s=seeders&o=desc&p=" \o <<"1", "2", "3", "4", "5">>[p]

DetailPageUrls ==
    {"https://nyaa.si/view/1", "https://nyaa.si/view/2",
     "https://nyaa.si/view/3"}

\* the ids of the torrents a result page holds, in row order, and those of
\* them that are dubbed
Listed(text) ==
    CASE text = "<table class='torrent-list'><tbody><tr>1</tr>" -> <<1>>
      [] text = "<table class='torrent-list'><tbody><tr>2</tr><tr>3</tr>"
           -> <<2, 3>>
      [] OTHER -> <<>>
Dubbed == {2}

\* the torrents search_nyaa accepts from the page a get call returned
Accepted(response, dub_only) ==
    IF response.raised \/ response.status_code # 200 THEN <<>>
    ELSE SelectSeq(Listed(response.text),
                   LAMBDA id : ~dub_only \/ id \in Dubbed)

\* the get calls for result pages, in the order in which they were made
ResultGets ==
    SelectSeq(log, LAMBDA e : e.op = "get" /\ e.url \notin DetailPageUrls)

RECURSIVE AcceptedOfAll(_, _)
AcceptedOfAll(gets, dub_only) ==
    IF gets = <<>> THEN <<>>
    ELSE Accepted(Head(gets).response, dub_only)
         \o AcceptedOfAll(Tail(gets), dub_only)

\* C24: search_nyaa requests result pages in the order 1, 2, 3, ... and
\* never more than max_pages of them; it stops at the first page whose
\* request raises an HTTP error, that has no result table or rows, or that
\* yields no accepted torrent (after the dub filter), and it returns the
\* torrents accepted from all pages before the stop, in page order then row
\* order.
C24_PagesInOrderUntilFirstStop ==
    search_call.result # None =>
        LET args == search_call.args.value
            gets == ResultGets
            n == Len(gets)
            Stops(k) == Accepted(gets[k].response, args.dub_only) = <<>>
            result == search_call.result.value
        IN  /\ \A k \in 1..n : gets[k].url = ResultPageUrl(args.dub_only, k)
            /\ n <= args.max_pages
            /\ \A k \in 1..(n - 1) : ~Stops(k)
            /\ n < args.max_pages => n >= 1 /\ Stops(n)
            /\ [i \in 1..Len(result) |-> result[i].id]
                  = AcceptedOfAll(gets, args.dub_only)

\* three pages were asked for: the first two gave torrents 2, 3 and 1, the
\* third an error status
C24_Witness ==
    /\ search_call.result # None
    /\ search_call.args.value.max_pages = 3
    /\ Len(ResultGets) = 3
    /\ ResultGets[3].response.status_code = 500
    /\ Len(search_call.result.value) = 3
    /\ search_call.result.value[1].id = 2
    /\ search_call.result.value[2].id = 3
    /\ search_call.result.value[3].id = 1
    /\ search_call.result.value[3].submitter = "Bob"

(***************************************************************************)
(* Properties of download_group_torrents.                                  *)
(***************************************************************************)
\* the file each torrent name of the model is saved as
SavedAs(name) ==
    CASE name = "Show - 01" -> "/dl/G_ Show/Show - 01.torrent"
      [] name = "Show: 02" -> "/dl/G_ Show/Show_ 02.torrent"
      [] name = "Show_ 02" -> "/dl/G_ Show/Show_ 02.torrent"

\* the download of torrent i of the group succeeds: the file is delivered
\* with status 200 and can be written
Succeeds(i) ==
    LET outcome == download_call.args.value.outcomes[i]
    IN  /\ ~outcome.network.raised
        /\ outcome.network.status_code = 200
        /\ outcome.writable

\* the call has returned its list
Downloaded == download_call.result # None /\ ~download_call.result.value.raised

RECURSIVE PathsOfSuccessful(_)
PathsOfSuccessful(i) ==
    IF i > Len(download_call.args.value.group.torrents) THEN <<>>
    ELSE (IF Succeeds(i)
          THEN <<SavedAs(download_call.args.value.group.torrents[i].name)>>
          ELSE <<>>) \o PathsOfSuccessful(i + 1)

\* C26: download_group_torrents attempts the download of every torrent of
\* the group, in group order; a failed download (HTTP error, network error
\* or write error) does not stop the downloads that follow, and the
\* returned list holds exactly the paths of the successful downloads, in
\* group order.
C26_EveryTorrentAttempted ==
    Downloaded =>
        /\ download_call.requests
              = [i \in 1..Len(download_call.args.value.group.torrents) |->
                    <<"https://nyaa.si/download/1.torrent",
                      "https://nyaa.si/download/2.torrent",
                      "https://nyaa.si/download/3.torrent">>[i]]
        /\ download_call.result.value.paths = PathsOfSuccessful(1)

\* the first download of two failed with an error status, the second one
\* was made and is the only path returned
C26_Witness ==
    /\ Downloaded
    /\ Len(download_call.args.value.group.torrents) = 2
    /\ download_call.args.value.outcomes[1].network.status_code = 500
    /\ Succeeds(2)
    /\ Len(download_call.requests) = 2
    /\ download_call.result.value.paths = <<"/dl/G_ Show/Show_ 02.torrent">>
    /\ DOMAIN download_call.files = {"/dl/G_ Show/Show_ 02.torrent"}

\* C30: when download_group_torrents downloads n torrents of one group
\* successfully, the n returned paths are pairwise distinct files: no
\* downloaded torrent file of the group overwrites another one of the same
\* group.
C30_DownloadedFilesDistinct ==
    Downloaded =>
        LET paths == download_call.result.value.paths
        IN  /\ \A i, j \in 1..Len(paths) : i # j => paths[i] # paths[j]
            /\ Cardinality(DOMAIN download_call.files) = Len(paths)

(***************************************************************************)
(* Properties of concurrent cache writes.                                  *)
(***************************************************************************)
\* C27: cache writes are atomic: while one or more clients write the cached
\* page of a URL, possibly at the same time for the same URL, any read of
\* that URL's cache entry finds either no entry or the complete text of one
\* single write, never partial or mixed content.
C27_ReadsSeeWholeWrites ==
    \A text \in seen :
        \/ text = None
        \/ \E w \in 1..Len(writers) : text = Some(writers[w].content)
====
